---- MODULE Spec2Model ----
(***************************************************************************)
(* tokio-serial: the asynchronous serial stream over a readiness reactor.  *)
(*                                                                         *)
(* The model holds a loopback pair of SerialStream endpoints (src/lib.rs,  *)
(* unix), the kernel queues between them, the per-direction readiness and  *)
(* waker slots that AsyncFd keeps for each endpoint, the tasks that poll   *)
(* the endpoints, the streams that open builds from a device path on each  *)
(* platform, and the OS handles with the owners that release them.         *)
(***************************************************************************)
EXTENDS Integers, Sequences, FiniteSets, TLC

(* ------------------------------ bounds -------------------------------- *)
\* number of tasks that poll the streams
NTasks == 2
\* capacity, in bytes, of the kernel queue of one direction of the pair
Cap == 2
\* largest read buffer a caller passes
MaxBuf == 2
\* largest write buffer a caller passes
MaxChunk == 2
\* bytes written on the pair before the writers stop
MaxSent == 3
\* interrupted system calls before a raw operation gets its outcome
MaxIntr == 1
\* iterations of a poll loop after which a call is reported as spinning
Fuel == 3
\* most bytes buffered for the line codec
MaxLine == 4
\* longest duration, in time units, passed to set_timeout
MaxTimeout == 1

Eps == {1, 2, 3, 4}
\* the pairs that SerialStream::pair is called for, and the endpoints of
\* pair p: the master and the slave
Pairs == {1, 2}
PairEps(p) == {2 * p - 1, 2 * p}
PairOf(e) == (e + 1) \div 2
\* the pair that the scenarios with a single pair create
First == {1}
\* the slots for streams that `open` builds from a device path
Slots == {1, 2}
\* the handle CreateFileW / open(2) returns for the stream of slot s, and the
\* handle of the port that WindowsSerialStream::open opens first to read the
\* settings; the handle of endpoint e of the pair is e itself
Hmain(s) == 10 + s
Hprobe(s) == 20 + s
Handles == Eps \cup {Hmain(s) : s \in Slots} \cup {Hprobe(s) : s \in Slots}
Tasks == 1..NTasks
\* endpoints connected across the pairs
peer_cross(e) == 5 - e
\* the other endpoint of the pair
peer(e) == IF e % 2 = 1 THEN e + 1 ELSE e - 1

Min(a, b) == IF a < b THEN a ELSE b

IsPrefix(s, t) == Len(s) <= Len(t) /\ SubSeq(t, 1, Len(s)) = s

\* The streams never inspect the bytes they carry, so a byte is modelled by
\* its position in the stream it is written to: the k bytes a write accepts
\* after `done` bytes were written are done+1 .. done+k.
Stamp(done, k) == [i \in 1..k |-> done + i]

VARIABLES
    st,      \* st[e]: "none" | "live" | "dropped": the SerialStream of endpoint e
    dev,     \* dev[s]: the stream that `open` built in slot s, with its owners
    cfg,     \* cfg[e]: the settings of the device behind endpoint e
    src,     \* the buffer of the bytes read that the line codec decodes
    hnd,     \* hnd[h]: "free" | "open": the OS handle h
    dbl,     \* the handles that were released while they were not open
    chan,    \* chan[e]: bytes queued in the kernel for endpoint e to read
    rdy,     \* rdy[e][d]: the readiness AsyncFd has recorded for direction d
    waiter,  \* waiter[e][d]: the task whose waker is stored for direction d, or 0
    fut,     \* fut[t]: the operation task t is suspended in
    woken,   \* tasks whose waker was called and that were not polled since
    sent,    \* sent[e]: the bytes the writes on e reported as written
    rcvd,    \* rcvd[e]: the bytes the reads on e returned
    last     \* the call made by the last step, its inputs and its result

vars == <<st, dev, cfg, src, hnd, dbl, chan, rdy, waiter, fut, woken, sent, rcvd, last>>

(* ------------------------- results of a call -------------------------- *)
Out(res, err, bytes, n) == [res |-> res, err |-> err, bytes |-> bytes, n |-> n]
NoOut == Out("None", "", <<>>, 0)
\* the environment of one raw operation: interrupted system calls before the
\* outcome, and a device fault the kernel reports instead of the outcome
Envs == [intr : 0..MaxIntr, fault : {"none", "EIO"}]
NoEnv == [intr |-> 0, fault |-> "none"]

NoFut == [kind |-> "none", ep |-> 0]
ReadFut(e) == [kind |-> "read", ep |-> e]
WriteFut(e) == [kind |-> "write", ep |-> e]
\* the future of TTYPort::read / TTYPort::write suspended at
\* readable_mut().await / writable_mut().await on direction d of endpoint e
AwaitFut(e, d) == [kind |-> "await_" \o d, ep |-> e]

\* raw: the outcome of the first raw operation of the call ("" when none was
\* made, "Ok", or the error), and for open and drop_dev the type of the
\* stream, for set_exclusive the value asked for; nraw: the raw operations
\* the call made
Last(op, t, e, out, raw, nraw) ==
    [op |-> op, t |-> t, e |-> e, out |-> out, raw |-> raw, nraw |-> nraw]
NoLast == Last("none", 0, 0, NoOut, "", 0)
RawKind(r) == IF r.res = "Ok" THEN "Ok" ELSE r.err

\* buf.advance(bytes_read): the bytes a completed read adds to the filled
\* part of the caller's buffer
filled_none(out) == <<>>
\* buf.advance(1): the count the read returned is not used
filled_first(out) == IF out.res = "Ok" /\ out.n > 0 THEN <<out.bytes[1]>> ELSE <<>>
filled(out) == IF out.res = "Ok" THEN SubSeq(out.bytes, 1, out.n) ELSE <<>>

(* ---------------------- the raw, non-blocking calls ------------------- *)
\* read(2) on the non-blocking descriptor: what is queued, up to n bytes;
\* a read of no bytes returns 0
sys_read(ch, peerOpen, n, fault) ==
    IF fault # "none" THEN Out("Err", fault, <<>>, 0)
    ELSE IF n = 0 THEN Out("Ok", "", <<>>, 0)
    ELSE IF ch # <<>> THEN Out("Ok", "", SubSeq(ch, 1, Min(n, Len(ch))), Min(n, Len(ch)))
    ELSE IF ~peerOpen THEN Out("Err", "EIO", <<>>, 0)
    ELSE Out("Err", "WouldBlock", <<>>, 0)

\* write(2) on the non-blocking descriptor: as much as the peer's queue takes
sys_write(pch, peerOpen, data, fault) ==
    IF fault # "none" THEN Out("Err", fault, <<>>, 0)
    ELSE IF ~peerOpen THEN Out("Err", "EIO", <<>>, 0)
    ELSE IF Len(pch) >= Cap THEN Out("Err", "WouldBlock", <<>>, 0)
    ELSE Out("Ok", "", SubSeq(data, 1, Min(Len(data), Cap - Len(pch))),
             Min(Len(data), Cap - Len(pch)))

\* the system call's outcomes in order: env.intr interruptions, then `final`
Outcomes(env, final) ==
    [i \in 1..(env.intr + 1) |->
        IF i <= env.intr THEN Out("Err", "Interrupted", <<>>, 0) ELSE final]

\* a helper that returns what the first call reports
uninterruptibly_once(outs) == Head(outs)

\* uninterruptibly!: repeat the call while it reports Interrupted
RECURSIVE uninterruptibly(_)
uninterruptibly(outs) ==
    IF Head(outs).res = "Err" /\ Head(outs).err = "Interrupted" /\ Len(outs) > 1
    THEN uninterruptibly(Tail(outs))
    ELSE Head(outs)

read_from_fd(ch, peerOpen, n, env) ==
    uninterruptibly(Outcomes(env, sys_read(ch, peerOpen, n, env.fault)))

write_to_fd(pch, peerOpen, data, env) ==
    uninterruptibly(Outcomes(env, sys_write(pch, peerOpen, data, env.fault)))

(* ------------------------------ AsyncFd ------------------------------- *)
\* poll_ready keeping the waker that is already in the slot
poll_ready_keep(ready, slot, t) ==
    IF ready THEN [ready |-> TRUE, slot |-> slot]
    ELSE [ready |-> FALSE, slot |-> IF slot = 0 THEN t ELSE slot]

\* poll_ready that returns Pending without storing the waker
poll_ready_forget(ready, slot, t) == [ready |-> ready, slot |-> slot]

\* poll_ready that reports ready without looking at the recorded readiness
poll_ready_eager(ready, slot, t) == [ready |-> TRUE, slot |-> slot]

\* poll_read_ready / poll_write_ready: Ready when readiness is recorded,
\* otherwise the caller's waker takes the direction's slot
poll_ready(ready, slot, t) ==
    IF ready THEN [ready |-> TRUE, slot |-> slot]
    ELSE [ready |-> FALSE, slot |-> t]

\* try_io taking every error of the raw operation for a would-block
try_io_any(ready, result) ==
    IF result.res = "Err"
    THEN [would_block |-> TRUE, ready |-> FALSE, result |-> result]
    ELSE [would_block |-> FALSE, ready |-> ready, result |-> result]

\* try_io leaving the recorded readiness as it is after a would-block
try_io_keep(ready, result) ==
    IF result.res = "Err" /\ result.err = "WouldBlock"
    THEN [would_block |-> TRUE, ready |-> ready, result |-> result]
    ELSE [would_block |-> FALSE, ready |-> ready, result |-> result]

\* guard.try_io: a would-block result clears the recorded readiness
try_io(ready, result) ==
    IF result.res = "Err" /\ result.err = "WouldBlock"
    THEN [would_block |-> TRUE, ready |-> FALSE, result |-> result]
    ELSE [would_block |-> FALSE, ready |-> ready, result |-> result]

\* the result of one poll call: what it returns, the readiness and slot it
\* leaves, the number of raw operations it made and the first one's outcome
Polled(out, ready, slot, nraw, raw) ==
    [out |-> out, ready |-> ready, slot |-> slot, nraw |-> nraw, raw |-> raw]

\* a loop that repeats the raw operation right after a would-block, without
\* polling the readiness again
after_io_again(io, slot, t, first, again, nraw) ==
    IF io.would_block
    THEN Polled(again, io.ready, slot, nraw + 2, first)
    ELSE Polled(io.result, io.ready, slot, nraw + 1, first)

\* The loop of poll_read / poll_write / poll_flush:
\*     loop { let mut guard = ready!(self.inner.poll_X_ready(cx))?;
\*            match guard.try_io(|inner| raw(inner)) {
\*                Ok(r) => return Ready(r), Err(_would_block) => continue } }
\* `first` is the outcome of the call's first raw operation, which meets the
\* environment's interruptions and fault, `again` that of a repeated one.
RECURSIVE poll_loop(_, _, _, _, _, _)
after_io(io, slot, t, first, again, nraw) ==
    IF io.would_block
    THEN poll_loop(io.ready, slot, t, first, again, nraw + 1)
    ELSE Polled(io.result, io.ready, slot, nraw + 1, first)

poll_loop(ready, slot, t, first, again, nraw) ==
    IF nraw >= Fuel THEN Polled(Out("Spin", "", <<>>, 0), ready, slot, nraw, first)
    ELSE IF ~poll_ready(ready, slot, t).ready
    THEN Polled(Out("Pending", "", <<>>, 0), FALSE, poll_ready(ready, slot, t).slot, nraw,
                IF nraw = 0 THEN NoOut ELSE first)
    ELSE after_io(try_io(ready, IF nraw = 0 THEN first ELSE again), slot, t, first, again, nraw)

poll_read_loop(ready, slot, ch, peerOpen, t, n, env) ==
    poll_loop(ready, slot, t, read_from_fd(ch, peerOpen, n, env),
              read_from_fd(ch, peerOpen, n, NoEnv), 0)

poll_write_loop(ready, slot, pch, peerOpen, t, data, env) ==
    poll_loop(ready, slot, t, write_to_fd(pch, peerOpen, data, env),
              write_to_fd(pch, peerOpen, data, NoEnv), 0)

(* ------------------------------ handles ------------------------------- *)
\* the OS-level release of handle h: a second release is recorded in dbl
release(H, h) ==
    [hnd |-> [H.hnd EXCEPT ![h] = "free"],
     dbl |-> IF H.hnd[h] = "free" THEN H.dbl \cup {h} ELSE H.dbl]
acquire(H, h) == [hnd |-> [H.hnd EXCEPT ![h] = "open"], dbl |-> H.dbl]

PeerOpen(e) == st[peer(e)] = "live"

\* An owner of a handle: a field of the stream whose destructor releases the
\* handle, unless the field is wrapped in ManuallyDrop.
Owner(obj, h, suppressed) == [obj |-> obj, h |-> h, suppressed |-> suppressed]
\* A stream built by `open`: impl is the type that was built, owners its
\* fields that hold the handle, in declaration order, excl the exclusivity
\* of its port.
Dev(state, impl, owners) ==
    [st |-> state, impl |-> impl, owners |-> owners, excl |-> FALSE]
NoDev == Dev("none", "", <<>>)

\* drop glue: the fields are dropped in declaration order, each field that
\* is not ManuallyDrop releasing the handle it holds
RECURSIVE drop_owners(_, _)
drop_owners(H, owners) ==
    IF owners = <<>> THEN H
    ELSE drop_owners(IF Head(owners).suppressed THEN H ELSE release(H, Head(owners).h),
                     Tail(owners))

(* ------------------------- the device settings ------------------------ *)
\* The settings the device keeps, with the values it accepts and one value
\* it rejects; enumerations are coded by numbers.
Settings == {"baud_rate", "data_bits", "flow_control", "parity", "stop_bits"}
Supported(k) ==
    CASE k = "baud_rate" -> {9600, 115200}
      [] k = "data_bits" -> {7, 8}
      [] k = "stop_bits" -> {1, 2}
      [] OTHER -> {0, 1}
Rejected(k) ==
    CASE k = "baud_rate" -> 7
      [] k = "data_bits" -> 5
      [] k = "stop_bits" -> 3
      [] OTHER -> 2
DefaultSettings ==
    [k \in Settings |->
        CASE k = "baud_rate" -> 9600 [] k = "data_bits" -> 8 [] k = "stop_bits" -> 1 [] OTHER -> 0]

Setter(k) == "set_" \o k
Setters == {Setter(k) : k \in Settings}
SettingOf(op) == CHOOSE k \in Settings : Setter(k) = op
LineWrites == {"write_request_to_send", "write_data_terminal_ready"}
LineReads == {"read_clear_to_send", "read_data_set_ready", "read_ring_indicator",
              "read_carrier_detect"}
Counts == {"bytes_to_read", "bytes_to_write"}
Breaks == {"set_break", "clear_break"}
\* the device-control operations
DeviceOps == {"name"} \cup Settings \cup Setters \cup LineWrites \cup LineReads
                 \cup Counts \cup {"clear"} \cup Breaks
\* the operations of the SerialPort trait the stream answers itself
OwnOps == {"timeout", "set_timeout", "try_clone"}

\* The argument of an operation: the value to set, the level to drive a
\* line to, the level the line has when it is read, the duration of
\* set_timeout; 0 for an operation without one.
Args(op) ==
    IF op \in Setters THEN Supported(SettingOf(op)) \cup {Rejected(SettingOf(op))}
    ELSE IF op \in LineWrites \cup LineReads THEN {0, 1}
    ELSE IF op = "set_timeout" THEN 0..MaxTimeout
    ELSE {0}

Called(out, c, ch) == [out |-> out, cfg |-> c, chan |-> ch]

\* The operation on the device handle: c are its settings, ch its input
\* queue, fault the error the OS reports for the call, if any.
device_call(c, ch, op, arg, fault) ==
    IF op = "name" THEN Called(Out("Ok", "", <<>>, 0), c, ch)
    ELSE IF fault # "none" THEN Called(Out("Err", fault, <<>>, 0), c, ch)
    ELSE IF op \in Settings THEN Called(Out("Ok", "", <<>>, c[op]), c, ch)
    ELSE IF op \in Setters
    THEN IF arg \in Supported(SettingOf(op))
         THEN Called(Out("Ok", "", <<>>, 0), [c EXCEPT ![SettingOf(op)] = arg], ch)
         ELSE Called(Out("Err", "Configuration", <<>>, 0), c, ch)
    ELSE IF op \in LineReads THEN Called(Out("Ok", "", <<>>, arg), c, ch)
    ELSE IF op = "bytes_to_read" THEN Called(Out("Ok", "", <<>>, Len(ch)), c, ch)
    ELSE IF op = "clear" THEN Called(Out("Ok", "", <<>>, 0), c, <<>>)
    ELSE Called(Out("Ok", "", <<>>, 0), c, ch)

\* self.borrow() / self.borrow_mut(): the call is made on the device
borrow(c, ch, op, arg, fault) == device_call(c, ch, op, arg, fault)

\* a stream that answers set_baud_rate itself, as it answers set_timeout
SerialPort_call_keep(c, ch, op, arg, fault) ==
    IF op \in {"timeout", "set_timeout", "set_baud_rate"} THEN Called(Out("Ok", "", <<>>, 0), c, ch)
    ELSE IF op = "try_clone" THEN Called(Out("Err", "Io(Other)", <<>>, 0), c, ch)
    ELSE borrow(c, ch, op, arg, fault)

\* a stream that reports every forwarded call as a success
SerialPort_call_ok(c, ch, op, arg, fault) ==
    IF op \in {"timeout", "set_timeout"} THEN Called(Out("Ok", "", <<>>, 0), c, ch)
    ELSE IF op = "try_clone" THEN Called(Out("Err", "Io(Other)", <<>>, 0), c, ch)
    ELSE [borrow(c, ch, op, arg, fault) EXCEPT !.out.res = "Ok", !.out.err = ""]

\* a stream that forwards timeout and set_timeout to the device as well
SerialPort_call_fwd(c, ch, op, arg, fault) ==
    IF op = "try_clone" THEN Called(Out("Err", "Io(Other)", <<>>, 0), c, ch)
    ELSE borrow(c, ch, op, arg, fault)

\* impl SerialPort for SerialStream: timeout, set_timeout and try_clone are
\* answered by the stream, every other operation is forwarded
SerialPort_call(c, ch, op, arg, fault) ==
    CASE op = "timeout" -> Called(Out("Ok", "", <<>>, 0), c, ch)
      [] op = "set_timeout" -> Called(Out("Ok", "", <<>>, 0), c, ch)
      [] op = "try_clone" -> Called(Out("Err", "Io(Other)", <<>>, 0), c, ch)
      [] OTHER -> borrow(c, ch, op, arg, fault)

(* ------------------------------- Init --------------------------------- *)
Init ==
    /\ st = [e \in Eps |-> "none"]
    /\ dev = [s \in Slots |-> NoDev]
    /\ cfg = [e \in Eps |-> DefaultSettings]
    /\ src = <<>>
    /\ hnd = [h \in Handles |-> "free"]
    /\ dbl = {}
    /\ chan = [e \in Eps |-> <<>>]
    /\ rdy = [e \in Eps |-> [r |-> FALSE, w |-> FALSE]]
    /\ waiter = [e \in Eps |-> [r |-> 0, w |-> 0]]
    /\ fut = [t \in Tasks |-> NoFut]
    /\ woken = {}
    /\ sent = [e \in Eps |-> <<>>]
    /\ rcvd = [e \in Eps |-> <<>>]
    /\ last = NoLast

(* ------------------------------ actions ------------------------------- *)
PairFails == {"none", "pair", "master", "slave"}

\* The handles after SerialStream::pair, `fail` being the step that fails:
\*   "pair":   mio_serial::SerialStream::pair()? fails, nothing is acquired;
\*   "master": AsyncFd::new(master)? fails: AsyncFd::new drops master, and
\*             the return drops the local slave;
\*   "slave":  AsyncFd::new(slave)? fails: AsyncFd::new drops slave, and the
\*             return drops the master stream already built.
pair_handles(H, p, fail) ==
    LET H1 == acquire(acquire(H, 2 * p - 1), 2 * p)
    IN  CASE fail = "pair" -> H
          [] fail = "master" -> release(release(H1, 2 * p - 1), 2 * p)
          [] fail = "slave" -> release(release(H1, 2 * p), 2 * p - 1)
          [] OTHER -> H1

\* SerialStream::pair: the pseudo-terminal pair, each end wrapped in an AsyncFd
pair(p, fail) ==
    /\ \A e \in PairEps(p) : st[e] = "none"
    /\ \E H \in {pair_handles([hnd |-> hnd, dbl |-> dbl], p, fail)} :
           hnd' = H.hnd /\ dbl' = H.dbl
    /\ st' = [e \in Eps |-> IF fail = "none" /\ e \in PairEps(p) THEN "live" ELSE st[e]]
    /\ last' = Last("pair", 0, p,
                    IF fail = "none" THEN Out("Ok", "", <<>>, 0)
                    ELSE Out("Err", fail, <<>>, 0), "", 0)
    /\ UNCHANGED <<dev, cfg, src, chan, rdy, waiter, fut, woken, sent, rcvd>>

\* the bytes written on the pair are bounded; a write towards a closed peer
\* moves none
InBudget(e, k) == ~PeerOpen(e) \/ Len(sent[e]) + Len(sent[peer(e)]) + k <= MaxSent

\* AsyncRead::poll_read by task t on endpoint e with room for n bytes
poll_read(t, e, n, env) ==
    /\ st[e] = "live"
    /\ fut[t] \in {NoFut, ReadFut(e)}
    /\ \E p \in {poll_read_loop(rdy[e].r, waiter[e].r, chan[e], PeerOpen(e), t, n, env)} :
           /\ rdy' = [rdy EXCEPT ![e].r = p.ready]
           /\ waiter' = [waiter EXCEPT ![e].r = p.slot]
           /\ chan' = [chan EXCEPT ![e] = SubSeq(@, p.out.n + 1, Len(@))]
           /\ rcvd' = [rcvd EXCEPT ![e] = @ \o filled(p.out)]
           /\ fut' = [fut EXCEPT ![t] = IF p.out.res = "Pending" THEN ReadFut(e) ELSE NoFut]
           /\ last' = Last("poll_read", t, e, p.out, RawKind(p.raw), p.nraw)
    /\ woken' = woken \ {t}
    /\ UNCHANGED <<st, dev, cfg, src, hnd, dbl, sent>>

\* AsyncWrite::poll_write by task t on endpoint e with the bytes `data`
poll_write(t, e, k, env) ==
    /\ st[e] = "live"
    /\ fut[t] \in {NoFut, WriteFut(e)}
    /\ InBudget(e, k)
    /\ \E p \in {poll_write_loop(rdy[e].w, waiter[e].w, chan[peer(e)], PeerOpen(e), t, Stamp(Len(sent[e]), k), env)} :
           /\ rdy' = [rdy EXCEPT ![e].w = p.ready]
           /\ waiter' = [waiter EXCEPT ![e].w = p.slot]
           /\ chan' = [chan EXCEPT ![peer(e)] = @ \o p.out.bytes]
           /\ sent' = [sent EXCEPT ![e] = @ \o p.out.bytes]
           /\ fut' = [fut EXCEPT ![t] = IF p.out.res = "Pending" THEN WriteFut(e) ELSE NoFut]
           /\ last' = Last("poll_write", t, e, p.out, RawKind(p.raw), p.nraw)
    /\ woken' = woken \ {t}
    /\ UNCHANGED <<st, dev, cfg, src, hnd, dbl, rcvd>>

\* the kernel's readiness of direction d of endpoint e
KernelReady(e, d) ==
    IF d = "r" THEN chan[e] # <<>> \/ ~PeerOpen(e)
    ELSE Len(chan[peer(e)]) < Cap \/ ~PeerOpen(e)

\* a reactor that records the readiness and wakes no task
deliver_silent(e, d) ==
    /\ st[e] = "live"
    /\ KernelReady(e, d)
    /\ ~rdy[e][d]
    /\ rdy' = [rdy EXCEPT ![e][d] = TRUE]
    /\ waiter' = [waiter EXCEPT ![e][d] = 0]
    /\ last' = NoLast
    /\ UNCHANGED <<st, dev, cfg, src, hnd, dbl, chan, fut, woken, sent, rcvd>>

\* a reactor that applies an event of one direction to both
deliver_both(e, d) ==
    /\ st[e] = "live"
    /\ KernelReady(e, d)
    /\ ~rdy[e][d]
    /\ rdy' = [rdy EXCEPT ![e] = [r |-> TRUE, w |-> TRUE]]
    /\ waiter' = [waiter EXCEPT ![e] = [r |-> 0, w |-> 0]]
    /\ woken' = woken \cup {t \in Tasks : t \in {waiter[e].r, waiter[e].w} /\ fut[t] # NoFut}
    /\ last' = NoLast
    /\ UNCHANGED <<st, dev, cfg, src, hnd, dbl, chan, fut, sent, rcvd>>

\* a reactor that wakes every task suspended on the direction
deliver_all(e, d) ==
    /\ st[e] = "live"
    /\ KernelReady(e, d)
    /\ ~rdy[e][d]
    /\ rdy' = [rdy EXCEPT ![e][d] = TRUE]
    /\ waiter' = [waiter EXCEPT ![e][d] = 0]
    /\ woken' = woken \cup {t \in Tasks : fut[t] \in {ReadFut(e), WriteFut(e), AwaitFut(e, d)}}
    /\ last' = NoLast
    /\ UNCHANGED <<st, dev, cfg, src, hnd, dbl, chan, fut, sent, rcvd>>

\* the reactor delivers a readiness event: the readiness is recorded, the
\* waker in the direction's slot is taken and called, and so is the waker of
\* every future that awaits the readiness (readable / writable)
deliver(e, d) ==
    /\ st[e] = "live"
    /\ KernelReady(e, d)
    /\ ~rdy[e][d]
    /\ rdy' = [rdy EXCEPT ![e][d] = TRUE]
    /\ waiter' = [waiter EXCEPT ![e][d] = 0]
    /\ woken' = woken \cup {t \in Tasks : t = waiter[e][d] /\ fut[t] # NoFut}
                      \cup {t \in Tasks : fut[t] = AwaitFut(e, d)}
    /\ last' = NoLast
    /\ UNCHANGED <<st, dev, cfg, src, hnd, dbl, chan, fut, sent, rcvd>>

\* a cancellation that completes the read in flight into the dropped buffer
cancel_consumes(t) ==
    /\ fut[t] # NoFut
    /\ fut' = [fut EXCEPT ![t] = NoFut]
    /\ woken' = woken \ {t}
    /\ chan' = [chan EXCEPT ![fut[t].ep] = IF @ = <<>> THEN @ ELSE Tail(@)]
    /\ last' = Last("cancel", t, fut[t].ep, NoOut, "", 0)
    /\ UNCHANGED <<st, dev, cfg, src, hnd, dbl, rdy, waiter, sent, rcvd>>

\* a suspended read or write future is dropped
cancel(t) ==
    /\ fut[t] # NoFut
    /\ fut' = [fut EXCEPT ![t] = NoFut]
    /\ woken' = woken \ {t}
    /\ last' = Last("cancel", t, fut[t].ep, NoOut, "", 0)
    /\ UNCHANGED <<st, dev, cfg, src, hnd, dbl, chan, rdy, waiter, sent, rcvd>>

\* the stream of endpoint e is dropped: its AsyncFd leaves the reactor and
\* the descriptor is closed; the futures that borrow the stream go with it
drop_stream(e) ==
    /\ st[e] = "live"
    /\ st' = [st EXCEPT ![e] = "dropped"]
    /\ \E H \in {release([hnd |-> hnd, dbl |-> dbl], e)} :
           hnd' = H.hnd /\ dbl' = H.dbl
    /\ chan' = [x \in Eps |-> IF x \in {e, peer(e)} THEN <<>> ELSE chan[x]]
    /\ rdy' = [rdy EXCEPT ![e] = [r |-> FALSE, w |-> FALSE]]
    /\ waiter' = [waiter EXCEPT ![e] = [r |-> 0, w |-> 0]]
    /\ fut' = [t \in Tasks |-> IF fut[t].ep = e THEN NoFut ELSE fut[t]]
    /\ woken' = {t \in woken : fut[t].ep # e}
    /\ last' = Last("drop", 0, e, NoOut, "", 0)
    /\ UNCHANGED <<dev, cfg, src, sent, rcvd>>

\* SerialStream::try_read: the raw read, once, on the descriptor
try_read_zero(ch, peerOpen, n, env) ==
    IF read_from_fd(ch, peerOpen, n, env).err = "WouldBlock"
    THEN Out("Ok", "", <<>>, 0)
    ELSE read_from_fd(ch, peerOpen, n, env)
try_read_result(ch, peerOpen, n, env) == read_from_fd(ch, peerOpen, n, env)

\* a try_read that goes through the guard and clears the read readiness
\* when the raw read reports would-block
try_read_clear(e, n, env) ==
    /\ st[e] = "live"
    /\ \E r \in {try_read_result(chan[e], PeerOpen(e), n, env)} :
           /\ chan' = [chan EXCEPT ![e] = SubSeq(@, r.n + 1, Len(@))]
           /\ rcvd' = [rcvd EXCEPT ![e] = @ \o r.bytes]
           /\ rdy' = [rdy EXCEPT ![e].r = try_io(@, r).ready]
           /\ last' = Last("try_read", 0, e, r, RawKind(read_from_fd(chan[e], PeerOpen(e), n, env)), 1)
    /\ UNCHANGED <<st, dev, cfg, src, hnd, dbl, waiter, fut, woken, sent>>

try_read(e, n, env) ==
    /\ st[e] = "live"
    /\ \E r \in {try_read_result(chan[e], PeerOpen(e), n, env)} :
           /\ chan' = [chan EXCEPT ![e] = SubSeq(@, r.n + 1, Len(@))]
           /\ rcvd' = [rcvd EXCEPT ![e] = @ \o r.bytes]
           /\ last' = Last("try_read", 0, e, r, RawKind(read_from_fd(chan[e], PeerOpen(e), n, env)), 1)
    /\ UNCHANGED <<st, dev, cfg, src, hnd, dbl, rdy, waiter, fut, woken, sent>>

\* SerialStream::try_write: the raw write, once, on the descriptor
try_write_result(pch, peerOpen, data, env) == write_to_fd(pch, peerOpen, data, env)

try_write(e, k, env) ==
    /\ st[e] = "live"
    /\ InBudget(e, k)
    /\ \E r \in {try_write_result(chan[peer(e)], PeerOpen(e), Stamp(Len(sent[e]), k), env)} :
           /\ chan' = [chan EXCEPT ![peer(e)] = @ \o r.bytes]
           /\ sent' = [sent EXCEPT ![e] = @ \o r.bytes]
           /\ last' = Last("try_write", 0, e, r,
                           RawKind(write_to_fd(chan[peer(e)], PeerOpen(e), Stamp(Len(sent[e]), k), env)), 1)
    /\ UNCHANGED <<st, dev, cfg, src, hnd, dbl, rdy, waiter, fut, woken, rcvd>>

\* The inputs a call can consult: a poll that finds no readiness recorded
\* makes no raw operation, so its buffer size and the raw operation's
\* environment are not enumerated.
EnvsFor(e, d) == IF st[e] = "live" /\ rdy[e][d] THEN Envs ELSE {NoEnv}
BufSizes(e, d) == IF st[e] = "live" /\ rdy[e][d] THEN 1..MaxBuf ELSE {1}

\* the endpoint whose stream task t owns: one task drives each endpoint
Own(t) == {t} \cap Eps

\* the pair with one task per endpoint, reading and writing through
\* AsyncRead and AsyncWrite
Next ==
    \/ \E p \in First, fail \in PairFails : pair(p, fail)
    \/ \E t \in Tasks : \E e \in Own(t) :
          \E n \in BufSizes(e, "r"), env \in EnvsFor(e, "r") : poll_read(t, e, n, env)
    \/ \E t \in Tasks : \E e \in Own(t) :
          \E k \in 1..MaxChunk, env \in EnvsFor(e, "w") : poll_write(t, e, k, env)
    \/ \E e \in Eps, d \in {"r", "w"} : deliver(e, d)
    \/ \E t \in Tasks : cancel(t)
    \/ \E e \in Eps : drop_stream(e)

Spec == Init /\ [][Next]_vars

\* the executor polls again the future of a task that was woken
Repoll(t) ==
    /\ t \in woken
    /\ \/ \E e \in Own(t) : \E n \in BufSizes(e, "r"), env \in EnvsFor(e, "r") :
              fut[t] = ReadFut(e) /\ poll_read(t, e, n, env)
       \/ \E e \in Own(t) : \E k \in 1..MaxChunk, env \in EnvsFor(e, "w") :
              fut[t] = WriteFut(e) /\ poll_write(t, e, k, env)

\* Spec with a reactor that delivers the events that are due and an executor
\* that runs the tasks that were woken
SpecFair ==
    /\ Init /\ [][Next]_vars
    /\ \A e \in Eps : WF_vars(deliver(e, "r")) /\ WF_vars(deliver(e, "w"))
    /\ \A t \in Tasks : WF_vars(Repoll(t))

\* ---------------------------------------------------------------------------
\* TTYPort: the async read and write methods
\* ---------------------------------------------------------------------------

\* One poll of the future of TTYPort::read / TTYPort::write: it awaits the
\* readiness of its direction and, once the guard is there, makes the raw
\* operation through try_io a single time; unwrap_or turns the TryIoError of
\* a would-block into an io::Error of kind WouldBlock that is returned.
await_try_io(ready, result) ==
    IF ~ready THEN [out |-> Out("Pending", "", <<>>, 0), ready |-> FALSE, nraw |-> 0]
    ELSE [out |-> IF try_io(ready, result).would_block
                  THEN Out("Err", "WouldBlock", <<>>, 0)
                  ELSE try_io(ready, result).result,
          ready |-> try_io(ready, result).ready,
          nraw |-> 1]

\* the methods take &mut self: no other future borrows the port meanwhile
Exclusive(t, e) == \A u \in Tasks \ {t} : fut[u].ep # e

\* TTYPort::read by task t on endpoint e with a buffer of n bytes
TTYPort_read(t, e, n, env) ==
    /\ st[e] = "live"
    /\ fut[t] \in {NoFut, AwaitFut(e, "r")}
    /\ Exclusive(t, e)
    /\ \E p \in {await_try_io(rdy[e].r, read_from_fd(chan[e], PeerOpen(e), n, env))} :
           /\ rdy' = [rdy EXCEPT ![e].r = p.ready]
           /\ chan' = [chan EXCEPT ![e] = SubSeq(@, p.out.n + 1, Len(@))]
           /\ rcvd' = [rcvd EXCEPT ![e] = @ \o filled(p.out)]
           /\ fut' = [fut EXCEPT ![t] = IF p.out.res = "Pending" THEN AwaitFut(e, "r") ELSE NoFut]
           /\ last' = Last("TTYPort_read", t, e, p.out,
                           IF p.nraw = 0 THEN ""
                           ELSE RawKind(read_from_fd(chan[e], PeerOpen(e), n, env)), p.nraw)
    /\ woken' = woken \ {t}
    /\ UNCHANGED <<st, dev, cfg, src, hnd, dbl, waiter, sent>>

\* TTYPort::write by task t on endpoint e with the next k bytes
TTYPort_write(t, e, k, env) ==
    /\ st[e] = "live"
    /\ fut[t] \in {NoFut, AwaitFut(e, "w")}
    /\ Exclusive(t, e)
    /\ InBudget(e, k)
    /\ \E p \in {await_try_io(rdy[e].w, write_to_fd(chan[peer(e)], PeerOpen(e),
                                                    Stamp(Len(sent[e]), k), env))} :
           /\ rdy' = [rdy EXCEPT ![e].w = p.ready]
           /\ chan' = [chan EXCEPT ![peer(e)] = @ \o p.out.bytes]
           /\ sent' = [sent EXCEPT ![e] = @ \o p.out.bytes]
           /\ fut' = [fut EXCEPT ![t] = IF p.out.res = "Pending" THEN AwaitFut(e, "w") ELSE NoFut]
           /\ last' = Last("TTYPort_write", t, e, p.out,
                           IF p.nraw = 0 THEN ""
                           ELSE RawKind(write_to_fd(chan[peer(e)], PeerOpen(e),
                                                    Stamp(Len(sent[e]), k), env)), p.nraw)
    /\ woken' = woken \ {t}
    /\ UNCHANGED <<st, dev, cfg, src, hnd, dbl, waiter, rcvd>>

\* the pair with one task per endpoint, reading and writing through the
\* async methods of TTYPort
NextTTY ==
    \/ \E p \in First, fail \in PairFails : pair(p, fail)
    \/ \E t \in Tasks : \E e \in Own(t) :
          \E n \in BufSizes(e, "r"), env \in EnvsFor(e, "r") : TTYPort_read(t, e, n, env)
    \/ \E t \in Tasks : \E e \in Own(t) :
          \E k \in 1..MaxChunk, env \in EnvsFor(e, "w") : TTYPort_write(t, e, k, env)
    \/ \E e \in Eps, d \in {"r", "w"} : deliver(e, d)
    \/ \E t \in Tasks : cancel(t)
    \/ \E e \in Eps : drop_stream(e)

SpecTTY == Init /\ [][NextTTY]_vars

\* the stream of endpoint 1 is read by every task and written by the task
\* that owns it; the stream of endpoint 2 is driven through the try_
\* operations, outside any task
Polled1 == {1}
Sync == {2}
\* the environments of a raw operation that no signal interrupts
Faults == {env \in Envs : env.intr = 0}

NextShared ==
    \/ \E p \in First, fail \in PairFails : pair(p, fail)
    \/ \E t \in Tasks : \E e \in Polled1 :
          \E n \in BufSizes(e, "r"), env \in EnvsFor(e, "r") \cap Faults : poll_read(t, e, n, env)
    \/ \E t \in Tasks : \E e \in Own(t) \cap Polled1 :
          \E k \in 1..MaxChunk, env \in EnvsFor(e, "w") \cap Faults : poll_write(t, e, k, env)
    \/ \E e \in Sync, n \in 1..MaxBuf, env \in Faults : try_read(e, n, env)
    \/ \E e \in Sync, k \in 1..MaxChunk, env \in Faults : try_write(e, k, env)
    \/ \E e \in Polled1, d \in {"r", "w"} : deliver(e, d)
    \/ \E t \in Tasks : cancel(t)
    \/ \E e \in Eps : drop_stream(e)

SpecShared == Init /\ [][NextShared]_vars

\* the pair with one task per endpoint, where the reader's buffer may have
\* no room left
NextBuf ==
    \/ \E p \in First, fail \in PairFails : pair(p, fail)
    \/ \E t \in Tasks : \E e \in Own(t) :
          \E n \in BufSizes(e, "r") \cup {0}, env \in EnvsFor(e, "r") \cap Faults :
              poll_read(t, e, n, env)
    \/ \E t \in Tasks : \E e \in Own(t) :
          \E k \in 1..MaxChunk, env \in EnvsFor(e, "w") \cap Faults : poll_write(t, e, k, env)
    \/ \E e \in Eps, d \in {"r", "w"} : deliver(e, d)
    \/ \E e \in Eps : drop_stream(e)

SpecBuf == Init /\ [][NextBuf]_vars

\* ---------------------------------------------------------------------------
\* flush and shutdown
\* ---------------------------------------------------------------------------

\* the future of a flush that returned Pending on endpoint e
FlushFut(e) == [kind |-> "flush", ep |-> e]

\* tcdrain(2): waits until the output was transmitted; it moves no byte of
\* the stream's queues
sys_flush(peerOpen, fault) ==
    IF fault # "none" THEN Out("Err", fault, <<>>, 0)
    ELSE IF ~peerOpen THEN Out("Err", "EIO", <<>>, 0)
    ELSE Out("Ok", "", <<>>, 0)

flush_fd(peerOpen, env) == uninterruptibly(Outcomes(env, sys_flush(peerOpen, env.fault)))

\* Ok(_) => return Poll::Ready(Ok(())): whatever the flush returned other
\* than a would-block, the poll reports success
flush_result(out) == IF out.res \in {"Ok", "Err"} THEN Out("Ok", "", <<>>, 0) ELSE out

\* the loop of poll_flush: poll_write_ready, then flush through try_io
poll_flush_loop(ready, slot, peerOpen, t, env) ==
    [poll_loop(ready, slot, t, flush_fd(peerOpen, env), flush_fd(peerOpen, NoEnv), 0)
        EXCEPT !.out = flush_result(@)]

\* AsyncWrite::poll_flush by task t on endpoint e
poll_flush(t, e, env) ==
    /\ st[e] = "live"
    /\ fut[t] \in {NoFut, FlushFut(e)}
    /\ \E p \in {poll_flush_loop(rdy[e].w, waiter[e].w, PeerOpen(e), t, env)} :
           /\ rdy' = [rdy EXCEPT ![e].w = p.ready]
           /\ waiter' = [waiter EXCEPT ![e].w = p.slot]
           /\ fut' = [fut EXCEPT ![t] = IF p.out.res = "Pending" THEN FlushFut(e) ELSE NoFut]
           /\ last' = Last("poll_flush", t, e, p.out, RawKind(p.raw), p.nraw)
    /\ woken' = woken \ {t}
    /\ UNCHANGED <<st, dev, cfg, src, hnd, dbl, chan, sent, rcvd>>

\* a shutdown that returns what the flush poll returned
shutdown_result_flush(flushed) == flushed

\* let _ = self.poll_flush(cx)?; Ok(()).into()
\* `?` on the Poll returns an error of the flush; a pending flush is
\* discarded and the shutdown is reported as done.
shutdown_result(flushed) ==
    IF flushed.res = "Err" THEN flushed ELSE Out("Ok", "", <<>>, 0)

\* AsyncWrite::poll_shutdown by task t on endpoint e
poll_shutdown(t, e, env) ==
    /\ st[e] = "live"
    /\ fut[t] = NoFut
    /\ \E p \in {poll_flush_loop(rdy[e].w, waiter[e].w, PeerOpen(e), t, env)} :
           /\ rdy' = [rdy EXCEPT ![e].w = p.ready]
           /\ waiter' = [waiter EXCEPT ![e].w = p.slot]
           /\ last' = Last("poll_shutdown", t, e, shutdown_result(p.out), RawKind(p.raw), p.nraw)
    /\ woken' = woken \ {t}
    /\ UNCHANGED <<st, dev, cfg, src, hnd, dbl, chan, fut, sent, rcvd>>

\* An operation of the SerialPort trait on the stream of endpoint e; none
\* of them is a future: the call returns its result
control(e, op, arg, fault) ==
    /\ st[e] = "live"
    /\ \E r \in {SerialPort_call(cfg[e], chan[e], op, arg, fault)} :
           /\ cfg' = [cfg EXCEPT ![e] = r.cfg]
           /\ chan' = [chan EXCEPT ![e] = r.chan]
           /\ last' = Last(op, 0, e, r.out, "", 0)
    /\ UNCHANGED <<st, dev, src, hnd, dbl, rdy, waiter, fut, woken, sent, rcvd>>

\* a readable / writable that clears the readiness it consumed
await_ready_clear(t, e, d) ==
    /\ st[e] = "live"
    /\ fut[t] \in {NoFut, AwaitFut(e, d)}
    /\ fut' = [fut EXCEPT ![t] = IF rdy[e][d] THEN NoFut ELSE AwaitFut(e, d)]
    /\ rdy' = [rdy EXCEPT ![e][d] = FALSE]
    /\ woken' = woken \ {t}
    /\ last' = Last(IF d = "r" THEN "readable" ELSE "writable", t, e,
                    IF rdy[e][d] THEN Out("Ok", "", <<>>, 0) ELSE Out("Pending", "", <<>>, 0),
                    "", 0)
    /\ UNCHANGED <<st, dev, cfg, src, hnd, dbl, chan, waiter, sent, rcvd>>

\* SerialStream::readable / SerialStream::writable by task t on the
\* direction d of endpoint e: the future of AsyncFd::readable / writable
\* resolves once the readiness of the direction is recorded; the guard it
\* yields is dropped at once, and the recorded readiness stays
await_ready(t, e, d) ==
    /\ st[e] = "live"
    /\ fut[t] \in {NoFut, AwaitFut(e, d)}
    /\ fut' = [fut EXCEPT ![t] = IF rdy[e][d] THEN NoFut ELSE AwaitFut(e, d)]
    /\ woken' = woken \ {t}
    /\ last' = Last(IF d = "r" THEN "readable" ELSE "writable", t, e,
                    IF rdy[e][d] THEN Out("Ok", "", <<>>, 0) ELSE Out("Pending", "", <<>>, 0),
                    "", 0)
    /\ UNCHANGED <<st, dev, cfg, src, hnd, dbl, chan, rdy, waiter, sent, rcvd>>

readable(t, e) == await_ready(t, e, "r")
writable(t, e) == await_ready(t, e, "w")

\* the operations of the SerialPort trait
PortOps == DeviceOps \cup OwnOps

\* the stream of endpoint 1 is configured and controlled while its task
\* flushes it and shuts it down; the peer stays open
NextCtl ==
    \/ \E p \in First, fail \in PairFails : pair(p, fail)
    \/ \E e \in Polled1, op \in PortOps : \E arg \in Args(op), fault \in {"none", "EIO"} :
          control(e, op, arg, fault)
    \/ \E t \in Tasks : \E e \in Own(t) \cap Polled1 :
          \E env \in EnvsFor(e, "w") \cap Faults : poll_flush(t, e, env)
    \/ \E t \in Tasks : \E e \in Own(t) \cap Polled1 :
          \E env \in EnvsFor(e, "w") \cap Faults : poll_shutdown(t, e, env)
    \/ \E e \in Polled1, d \in {"r", "w"} : deliver(e, d)
    \/ \E t \in Tasks : cancel(t)
    \/ \E e \in Polled1 : drop_stream(e)

SpecCtl == Init /\ [][NextCtl]_vars

\* ---------------------------------------------------------------------------
\* Streams opened from a device path
\* ---------------------------------------------------------------------------

\* The two configurations lib.rs is compiled in.
Platforms == {"unix", "windows"}

\* Where SerialStream::open can fail:
\*   "open":  mio_serial::SerialStream::open(builder)? fails, nothing acquired;
\*   "wrap":  AsyncFd::new(port)? (unix) or NamedPipeClient::from_raw_handle
\*            (windows) fails to register with the reactor.
OpenFails == {"none", "open", "wrap"}

\* The handles after SerialStream::open: on unix AsyncFd::new consumes the
\* port and drops it on failure; on windows the port is moved into ManuallyDrop
\* first, and from_raw_handle drops the pipe it built around the handle when
\* the registration fails.
open_handles(H, s, plat, fail) ==
    CASE fail = "open" -> H
      [] fail = "wrap" -> release(acquire(H, Hmain(s)), Hmain(s))
      [] OTHER -> acquire(H, Hmain(s))

\* The fields of the SerialStream that open returns, in declaration order.
open_owners(s, plat) ==
    IF plat = "unix" THEN <<Owner("inner", Hmain(s), FALSE)>>
    ELSE <<Owner("inner", Hmain(s), FALSE), Owner("com", Hmain(s), TRUE)>>

\* the device path is held exclusively by the stream of another slot
Locked(s) == \E u \in Slots \ {s} : dev[u].st = "live" /\ dev[u].excl

\* SerialStream::open into slot s
open(s, plat, fail) ==
    /\ dev[s].st # "live"
    /\ Locked(s) => fail = "open"
    /\ \E H \in {open_handles([hnd |-> hnd, dbl |-> dbl], s, plat, fail)} :
           hnd' = H.hnd /\ dbl' = H.dbl
    /\ dev' = [dev EXCEPT ![s] = IF fail = "none"
                                 THEN Dev("live", plat, open_owners(s, plat))
                                 ELSE NoDev]
    /\ last' = Last("open", 0, s,
                    IF fail = "none" THEN Out("Ok", "", <<>>, 0)
                    ELSE Out("Err", fail, <<>>, 0), plat, 0)
    /\ UNCHANGED <<st, cfg, src, chan, rdy, waiter, fut, woken, sent, rcvd>>

\* The device-configuration steps of WindowsSerialStream::open
ConfigSteps == {"set_baud_rate", "set_parity", "set_data_bits", "set_stop_bits",
                "set_flow_control", "override_comm_timeouts"}

\* an open that builds the pipe first and configures the port afterwards
WinOrder_pipe_first ==
    <<"probe", "name", "getters", "create_file", "pipe", "set_baud_rate", "set_parity",
      "set_data_bits", "set_stop_bits", "set_flow_control", "override_comm_timeouts">>

\* The fallible steps of WindowsSerialStream::open, in program order:
\*   "probe":       COMPort::open(builder)?;
\*   "name":        com_port.name() is None;
\*   "getters":     baud_rate()? .. flow_control()?;
\*   "create_file": CreateFileW returns INVALID_HANDLE_VALUE;
\*   "set_..":      com_port.set_baud_rate(baud)? .. set_flow_control(..)?;
\*   "override_comm_timeouts": Self::override_comm_timeouts(handle)?;
\*   "pipe":        NamedPipeClient::from_raw_handle(handle)?.
WinOrder ==
    <<"probe", "name", "getters", "create_file", "set_baud_rate", "set_parity",
      "set_data_bits", "set_stop_bits", "set_flow_control", "override_comm_timeouts", "pipe">>

\* Where WindowsSerialStream::open can fail
WinFails == {"none"} \cup {WinOrder[i] : i \in 1..Len(WinOrder)}

\* The handles after WindowsSerialStream::open. The port opened to read the
\* settings lives in the first block and is dropped when the block is left,
\* by `?` or at its end. After CreateFileW the local com_port owns the handle
\* and is dropped by every early return; from_raw_handle hands the same
\* handle to a pipe, which releases it when the registration fails, before
\* `?` returns and drops com_port.
WindowsSerialStream_handles(H, s, fail) ==
    LET P == release(acquire(H, Hprobe(s)), Hprobe(s))
        M == acquire(P, Hmain(s))
    IN  CASE fail = "probe" -> H
          [] fail \in {"name", "getters", "create_file"} -> P
          [] fail \in ConfigSteps -> release(M, Hmain(s))
          [] fail = "pipe" -> release(release(M, Hmain(s)), Hmain(s))
          [] OTHER -> M

\* a stream whose pipe is built around a handle of its own
WindowsSerialStream_owners_reopen(s) ==
    <<Owner("inner", Hmain(s), FALSE), Owner("pipe", Hprobe(s), FALSE)>>

\* an open whose probing port lives to the end of the function
open_step_keep_probe(H, s, step, ok) ==
    CASE step = "probe" -> IF ok THEN acquire(H, Hprobe(s)) ELSE H
      [] step \in {"name", "getters"} -> IF ok THEN H ELSE release(H, Hprobe(s))
      [] step = "create_file" -> IF ok THEN acquire(H, Hmain(s)) ELSE release(H, Hprobe(s))
      [] step \in ConfigSteps -> IF ok THEN H ELSE release(release(H, Hmain(s)), Hprobe(s))
      [] OTHER -> IF ok THEN release(H, Hprobe(s))
                  ELSE release(release(release(H, Hmain(s)), Hmain(s)), Hprobe(s))

\* What one step of WindowsSerialStream::open does to the handles, when it
\* succeeds and when it fails: COMPort::open acquires the probing handle;
\* the probing port is dropped where its block ends, after the getters, or
\* by the `?` that leaves the block; CreateFileW acquires the overlapped
\* handle; a failing setter drops com_port; a failing from_raw_handle drops
\* the pipe and then com_port.
open_step(H, s, step, ok) ==
    CASE step = "probe" -> IF ok THEN acquire(H, Hprobe(s)) ELSE H
      [] step = "name" -> IF ok THEN H ELSE release(H, Hprobe(s))
      [] step = "getters" -> release(H, Hprobe(s))
      [] step = "create_file" -> IF ok THEN acquire(H, Hmain(s)) ELSE H
      [] step \in ConfigSteps -> IF ok THEN H ELSE release(H, Hmain(s))
      [] OTHER -> IF ok THEN H ELSE release(release(H, Hmain(s)), Hmain(s))

\* the handles after each step that WindowsSerialStream::open executes when
\* step `fail` fails
RECURSIVE open_run(_, _, _, _)
open_run(H, s, steps, fail) ==
    IF steps = <<>> THEN <<>>
    ELSE IF Head(steps) = fail THEN <<open_step(H, s, Head(steps), FALSE)>>
    ELSE <<open_step(H, s, Head(steps), TRUE)>>
             \o open_run(open_step(H, s, Head(steps), TRUE), s, Tail(steps), fail)

\* The error kind of a failure of WindowsSerialStream::open: an empty name
\* is reported as NoDevice, a failure of CreateFileW or of the pipe as the
\* OS error, and the port's own errors as the port reports them
WindowsSerialStream_error(fail) ==
    CASE fail = "name" -> "NoDevice"
      [] fail \in {"create_file", "override_comm_timeouts", "pipe"} -> "Io(os)"
      [] OTHER -> "serialport"

\* The fields of WindowsSerialStream, in declaration order: neither is
\* wrapped in ManuallyDrop.
WindowsSerialStream_owners(s) ==
    <<Owner("inner", Hmain(s), FALSE), Owner("pipe", Hmain(s), FALSE)>>

\* WindowsSerialStream::open into slot s
WindowsSerialStream_open(s, fail) ==
    /\ dev[s].st # "live"
    /\ \E H \in {WindowsSerialStream_handles([hnd |-> hnd, dbl |-> dbl], s, fail)} :
           hnd' = H.hnd /\ dbl' = H.dbl
    /\ dev' = [dev EXCEPT ![s] = IF fail = "none"
                                 THEN Dev("live", "WindowsSerialStream",
                                          WindowsSerialStream_owners(s))
                                 ELSE NoDev]
    /\ last' = Last("open", 0, s,
                    IF fail = "none" THEN Out("Ok", "", <<>>, 0)
                    ELSE Out("Err", fail, <<>>, 0), "WindowsSerialStream", 0)
    /\ UNCHANGED <<st, cfg, src, chan, rdy, waiter, fut, woken, sent, rcvd>>

\* a conversion that registers the descriptor first and changes its mode
\* afterwards
TryFromOrder_register_first ==
    <<"AsyncFd", "tcgetattr", "tcsetattr", "F_GETFL", "F_SETFL">>

\* The fallible steps of TryFrom<TTYPort> for UnixSerialStream, in program
\* order: tcgetattr, tcsetattr with VMIN = 1, fcntl(F_GETFL),
\* fcntl(F_SETFL, flags | O_NONBLOCK), AsyncFd::new(tty)
TryFromOrder == <<"tcgetattr", "tcsetattr", "F_GETFL", "F_SETFL", "AsyncFd">>
TryFromFails == {"none"} \cup {TryFromOrder[i] : i \in 1..Len(TryFromOrder)}

\* The error try_from returns when the step fails: map_nix_error gives the
\* termios errors the kind Io(Other), and io::Error::last_os_error().into()
\* and the `?` on AsyncFd::new convert the OS error, which keeps its I/O kind.
try_from_error(fail) ==
    IF fail \in {"tcgetattr", "tcsetattr"} THEN "Io(Other)" ELSE "Io(os)"

\* The handles after try_from(tty): tty is taken by value, so every early
\* return drops it, and AsyncFd::new drops it when the registration fails.
try_from_handles(H, s, fail) ==
    IF fail = "none" THEN acquire(H, Hmain(s)) ELSE release(acquire(H, Hmain(s)), Hmain(s))

\* UnixSerialStream::try_from on a port just opened, into slot s
try_from(s, fail) ==
    /\ dev[s].st # "live"
    /\ \E H \in {try_from_handles([hnd |-> hnd, dbl |-> dbl], s, fail)} :
           hnd' = H.hnd /\ dbl' = H.dbl
    /\ dev' = [dev EXCEPT ![s] = IF fail = "none"
                                 THEN Dev("live", "UnixSerialStream",
                                          <<Owner("inner", Hmain(s), FALSE)>>)
                                 ELSE NoDev]
    /\ last' = Last("try_from", 0, s,
                    IF fail = "none" THEN Out("Ok", "", <<>>, 0)
                    ELSE Out("Err", try_from_error(fail), <<>>, 0), fail, 0)
    /\ UNCHANGED <<st, cfg, src, chan, rdy, waiter, fut, woken, sent, rcvd>>

\* Dropping the stream of slot s: the drop glue drops its fields.
drop_dev(s) ==
    /\ dev[s].st = "live"
    /\ \E H \in {drop_owners([hnd |-> hnd, dbl |-> dbl], dev[s].owners)} :
           hnd' = H.hnd /\ dbl' = H.dbl
    /\ dev' = [dev EXCEPT ![s] = Dev("dropped", dev[s].impl, <<>>)]
    /\ last' = Last("drop_dev", 0, s, NoOut, dev[s].impl, 0)
    /\ UNCHANGED <<st, cfg, src, chan, rdy, waiter, fut, woken, sent, rcvd>>

\* Streams being opened, failing to open and being dropped: the pair and the
\* device streams of both configurations.
NextOpen ==
    \/ \E p \in First, fail \in PairFails : pair(p, fail)
    \/ \E e \in Eps : drop_stream(e)
    \/ \E s \in Slots, plat \in Platforms, fail \in OpenFails : open(s, plat, fail)
    \/ \E s \in Slots, fail \in WinFails : WindowsSerialStream_open(s, fail)
    \/ \E s \in Slots, fail \in TryFromFails : try_from(s, fail)
    \/ \E s \in Slots : drop_dev(s)

SpecOpen == Init /\ [][NextOpen]_vars

\* The fallible steps of SerialStream::open, in program order: the device
\* is opened and configured by mio_serial::SerialStream::open, then wrapped
OpenOrder == <<"open", "wrap">>

\* the steps of the open of a stream type, the ones that configure the
\* device and the one that constructs the asynchronous primitive
StepsOf(impl) == IF impl = "WindowsSerialStream" THEN WinOrder ELSE OpenOrder
Configure(impl) == IF impl = "WindowsSerialStream" THEN ConfigSteps ELSE {"open"}
Construct(impl) == IF impl = "WindowsSerialStream" THEN "pipe" ELSE "wrap"

Pos(order, x) == CHOOSE i \in 1..Len(order) : order[i] = x
\* the steps an open executes when step `fail` fails: `?` returns there
executed(order, fail) ==
    IF fail = "none" THEN order ELSE SubSeq(order, 1, Pos(order, fail))

\* The types whose handle has two owners (a configuration object and the
\* named-pipe primitive).
Hybrid == {"windows", "WindowsSerialStream"}

\* The owners of the stream in slot s whose destructor releases the handle
Releasing(s) == {i \in 1..Len(dev[s].owners) : ~dev[s].owners[i].suppressed}


\* ---------------------------------------------------------------------------
\* readable / writable with try_read / try_write
\* ---------------------------------------------------------------------------
\* the stream of endpoint 2 is driven by its task the way the documentation
\* pairs the calls: readable() then try_read, writable() then try_write;
\* the peer writes to it and reads from it through the try_ operations
NextHint ==
    \/ \E p \in First, fail \in PairFails : pair(p, fail)
    \/ \E t \in Tasks : \E e \in Own(t) \cap Sync : readable(t, e)
    \/ \E t \in Tasks : \E e \in Own(t) \cap Sync : writable(t, e)
    \/ \E e \in PairEps(1), n \in 1..MaxBuf, env \in Faults : try_read(e, n, env)
    \/ \E e \in PairEps(1), k \in 1..MaxChunk, env \in Faults : try_write(e, k, env)
    \/ \E e \in Sync, d \in {"r", "w"} : deliver(e, d)
    \/ \E t \in Tasks : cancel(t)
    \/ \E e \in PairEps(1) : drop_stream(e)

SpecHint == Init /\ [][NextHint]_vars

\* ---------------------------------------------------------------------------
\* UnixSerialStream: Read and Write
\* ---------------------------------------------------------------------------
\* In the record of these calls, nraw is the number of system calls made.

\* Read::read: read_from_fd on the descriptor
UnixSerialStream_read(e, n, env) ==
    /\ st[e] = "live"
    /\ \E r \in {read_from_fd(chan[e], PeerOpen(e), n, env)} :
           /\ chan' = [chan EXCEPT ![e] = SubSeq(@, r.n + 1, Len(@))]
           /\ rcvd' = [rcvd EXCEPT ![e] = @ \o r.bytes]
           /\ last' = Last("UnixSerialStream_read", 0, e, r,
                           RawKind(sys_read(chan[e], PeerOpen(e), n, env.fault)), env.intr + 1)
    /\ UNCHANGED <<st, dev, cfg, src, hnd, dbl, rdy, waiter, fut, woken, sent>>

\* Write::write: write_to_fd on the descriptor
UnixSerialStream_write(e, k, env) ==
    /\ st[e] = "live"
    /\ InBudget(e, k)
    /\ \E r \in {write_to_fd(chan[peer(e)], PeerOpen(e), Stamp(Len(sent[e]), k), env)} :
           /\ chan' = [chan EXCEPT ![peer(e)] = @ \o r.bytes]
           /\ sent' = [sent EXCEPT ![e] = @ \o r.bytes]
           /\ last' = Last("UnixSerialStream_write", 0, e, r,
                           RawKind(sys_write(chan[peer(e)], PeerOpen(e),
                                             Stamp(Len(sent[e]), k), env.fault)), env.intr + 1)
    /\ UNCHANGED <<st, dev, cfg, src, hnd, dbl, rdy, waiter, fut, woken, rcvd>>

\* Write::flush: flush_fd on the descriptor
UnixSerialStream_flush(e, env) ==
    /\ st[e] = "live"
    /\ last' = Last("UnixSerialStream_flush", 0, e, flush_fd(PeerOpen(e), env),
                    RawKind(sys_flush(PeerOpen(e), env.fault)), env.intr + 1)
    /\ UNCHANGED <<st, dev, cfg, src, hnd, dbl, chan, rdy, waiter, fut, woken, sent, rcvd>>

\* the endpoints of a pair read, written and flushed through Read and
\* Write while signals interrupt the system calls
NextRaw ==
    \/ \E p \in First, fail \in PairFails : pair(p, fail)
    \/ \E e \in PairEps(1), n \in 1..MaxBuf, env \in Envs : UnixSerialStream_read(e, n, env)
    \/ \E e \in PairEps(1), k \in 1..MaxChunk, env \in Envs : UnixSerialStream_write(e, k, env)
    \/ \E e \in PairEps(1), env \in Envs : UnixSerialStream_flush(e, env)
    \/ \E e \in PairEps(1) : drop_stream(e)

SpecRaw == Init /\ [][NextRaw]_vars

\* ---------------------------------------------------------------------------
\* Two pairs
\* ---------------------------------------------------------------------------
\* pair is called twice; on each pair the master writes and the slave reads,
\* through the try_ operations, and the four streams are dropped in any order
Masters == {2 * p - 1 : p \in Pairs}
Slaves == {2 * p : p \in Pairs}

NextPairs ==
    \/ \E p \in Pairs, fail \in PairFails : pair(p, fail)
    \/ \E e \in Masters, k \in 1..MaxChunk : try_write(e, k, NoEnv)
    \/ \E e \in Slaves, n \in 1..MaxBuf : try_read(e, n, NoEnv)
    \/ \E e \in Eps : drop_stream(e)

SpecPairs == Init /\ [][NextPairs]_vars

\* ---------------------------------------------------------------------------
\* Exclusivity
\* ---------------------------------------------------------------------------
\* set_exclusive on the port: TIOCEXCL / TIOCNXCL, and the flag the port
\* keeps when the ioctl succeeded
port_set_exclusive(excl, x, fault) ==
    IF fault # "none" THEN [out |-> Out("Err", fault, <<>>, 0), excl |-> excl]
    ELSE [out |-> Out("Ok", "", <<>>, 0), excl |-> x]

\* a stream that accepts the call and does not forward it
SerialStream_set_exclusive_drop(excl, x, fault) ==
    [out |-> Out("Ok", "", <<>>, 0), excl |-> excl]

\* self.inner.get_mut().set_exclusive(exclusive)
SerialStream_set_exclusive(excl, x, fault) == port_set_exclusive(excl, x, fault)

\* self.inner.get_ref().exclusive(), as 1 for true and 0 for false
SerialStream_exclusive(excl) == Out("Ok", "", <<>>, IF excl THEN 1 ELSE 0)

\* TTYPort::open into slot s: mio_serial::TTYPort::open(builder)?, then
\* AsyncFd::new(port)?, as SerialStream::open on unix
TTYPort_open(s, fail) ==
    /\ dev[s].st # "live"
    /\ Locked(s) => fail = "open"
    /\ \E H \in {open_handles([hnd |-> hnd, dbl |-> dbl], s, "unix", fail)} :
           hnd' = H.hnd /\ dbl' = H.dbl
    /\ dev' = [dev EXCEPT ![s] = IF fail = "none"
                                 THEN Dev("live", "TTYPort", <<Owner("io", Hmain(s), FALSE)>>)
                                 ELSE NoDev]
    /\ last' = Last("open", 0, s,
                    IF fail = "none" THEN Out("Ok", "", <<>>, 0)
                    ELSE Out("Err", fail, <<>>, 0), "TTYPort", 0)
    /\ UNCHANGED <<st, cfg, src, chan, rdy, waiter, fut, woken, sent, rcvd>>

\* the stream types that have set_exclusive and exclusive
UnixPorts == {"unix", "TTYPort"}

\* SerialStream::set_exclusive / TTYPort::set_exclusive on the stream of
\* slot s
set_exclusive(s, x, fault) ==
    /\ dev[s].st = "live"
    /\ dev[s].impl \in UnixPorts
    /\ \E r \in {SerialStream_set_exclusive(dev[s].excl, x, fault)} :
           /\ dev' = [dev EXCEPT ![s].excl = r.excl]
           /\ last' = Last("set_exclusive", 0, s, r.out, ToString(x), 0)
    /\ UNCHANGED <<st, cfg, src, hnd, dbl, chan, rdy, waiter, fut, woken, sent, rcvd>>

\* SerialStream::exclusive / TTYPort::exclusive on the stream of slot s
exclusive(s) ==
    /\ dev[s].st = "live"
    /\ dev[s].impl \in UnixPorts
    /\ last' = Last("exclusive", 0, s, SerialStream_exclusive(dev[s].excl), "", 0)
    /\ UNCHANGED <<st, dev, cfg, src, hnd, dbl, chan, rdy, waiter, fut, woken, sent, rcvd>>

\* the two slots are opens of one device path
NextExcl ==
    \/ \E s \in Slots, fail \in OpenFails : open(s, "unix", fail)
    \/ \E s \in Slots, fail \in OpenFails : TTYPort_open(s, fail)
    \/ \E s \in Slots, x \in BOOLEAN, fault \in {"none", "EIO"} : set_exclusive(s, x, fault)
    \/ \E s \in Slots : exclusive(s)
    \/ \E s \in Slots : drop_dev(s)

SpecExcl == Init /\ [][NextExcl]_vars

\* ---------------------------------------------------------------------------
\* LineCodec
\* ---------------------------------------------------------------------------
\* The bytes the codec meets, by their place in UTF-8: the newline, an ASCII
\* letter, the lead byte of a two-byte sequence and a continuation byte.
Newline == {10}
Ascii == Newline \cup {97}
LeadBytes == {195}
ContBytes == {169}
Bytes == Ascii \cup LeadBytes \cup ContBytes

\* str::from_utf8(line).is_ok()
RECURSIVE from_utf8(_)
from_utf8(line) ==
    IF line = <<>> THEN TRUE
    ELSE IF Head(line) \in Ascii THEN from_utf8(Tail(line))
    ELSE IF Head(line) \in LeadBytes
    THEN Len(line) >= 2 /\ line[2] \in ContBytes /\ from_utf8(SubSeq(line, 3, Len(line)))
    ELSE FALSE

\* the position of the last newline
position_last(buf) ==
    IF \E i \in 1..Len(buf) : buf[i] \in Newline
    THEN CHOOSE i \in 1..Len(buf) : buf[i] \in Newline /\ \A j \in (i + 1)..Len(buf) : buf[j] \notin Newline
    ELSE 0

\* src.as_ref().iter().position(|b| *b == b'\n'), counted from 1; 0 is None
position(buf) ==
    IF \E i \in 1..Len(buf) : buf[i] \in Newline
    THEN CHOOSE i \in 1..Len(buf) : buf[i] \in Newline /\ \A j \in 1..(i - 1) : buf[j] \notin Newline
    ELSE 0

\* a decode that checks the text before it splits the record off, and so
\* leaves a record that is not valid text in the buffer
decode_result_keep(buf) ==
    IF position(buf) = 0 THEN [out |-> Out("Ok", "", <<>>, 0), src |-> buf]
    ELSE IF from_utf8(SubSeq(buf, 1, position(buf)))
    THEN [out |-> Out("Ok", "", SubSeq(buf, 1, position(buf)), position(buf)),
          src |-> SubSeq(buf, position(buf) + 1, Len(buf))]
    ELSE [out |-> Out("Err", "Other", <<>>, 0), src |-> buf]

\* LineCodec::decode: the result and the buffer it leaves. Ok(None) is the
\* result Ok with no bytes, Ok(Some(s)) the result Ok with the bytes of s.
decode_result(buf) ==
    IF position(buf) = 0 THEN [out |-> Out("Ok", "", <<>>, 0), src |-> buf]
    ELSE [out |-> IF from_utf8(SubSeq(buf, 1, position(buf)))
                  THEN Out("Ok", "", SubSeq(buf, 1, position(buf)), position(buf))
                  ELSE Out("Err", "Other", <<>>, 0),
          src |-> SubSeq(buf, position(buf) + 1, Len(buf))]

\* the framed reader appends a byte it read from the port
extend(b) ==
    /\ Len(src) < MaxLine
    /\ src' = Append(src, b)
    /\ last' = Last("extend", 0, 0, NoOut, "", 0)
    /\ UNCHANGED <<st, dev, cfg, hnd, dbl, chan, rdy, waiter, fut, woken, sent, rcvd>>

\* the framed reader calls decode on the buffer
decode ==
    /\ \E r \in {decode_result(src)} :
           /\ src' = r.src
           /\ last' = Last("decode", 0, 0, r.out, "", 0)
    /\ UNCHANGED <<st, dev, cfg, hnd, dbl, chan, rdy, waiter, fut, woken, sent, rcvd>>

NextCodec ==
    \/ \E b \in Bytes : extend(b)
    \/ decode

SpecCodec == Init /\ [][NextCodec]_vars

\* ---------------------------------------------------------------------------
\* The owner each operation of a hybrid stream goes through
\* ---------------------------------------------------------------------------
\* the operations that move bytes or wait for readiness
IoOps == {"try_read", "try_write", "poll_read", "poll_write", "readable", "writable"}
\* the other operations of AsyncWrite, and Write::flush
FlushOps == {"poll_flush", "poll_shutdown", "flush"}

\* the fields of the two hybrid streams by what they are: the named-pipe
\* client that does the asynchronous I/O, the COM port that is configured
role(impl, obj) ==
    IF impl = "windows"
    THEN CASE obj = "inner" -> "io" [] obj = "com" -> "config" [] OTHER -> "none"
    ELSE CASE obj = "pipe" -> "io" [] obj = "inner" -> "config" [] OTHER -> "none"

\* a stream that does everything through its named-pipe client
via_pipe(impl, op) == IF impl = "windows" THEN "inner" ELSE "pipe"

\* The field an operation of the stream is made on.
\*   SerialStream (windows): self.inner.try_read / try_write / readable /
\*     writable, Pin::new(&mut self_.inner).poll_*; borrow() / borrow_mut()
\*     is self.com for every device-control call and for Write::flush;
\*     timeout, set_timeout and try_clone touch no field.
\*   WindowsSerialStream: self.pipe for the I/O and the polls, get_ref() /
\*     get_mut() is self.inner for every device-control call, and
\*     Write::flush is self.inner.flush().
via(impl, op) ==
    IF op \in OwnOps THEN "none"
    ELSE IF op \in IoOps \cup {"poll_flush", "poll_shutdown"}
    THEN IF impl = "windows" THEN "inner" ELSE "pipe"
    ELSE IF impl = "windows" THEN "com" ELSE "inner"

StreamOps == IoOps \cup FlushOps \cup PortOps

\* an operation on the hybrid stream of slot s, recorded with the field it
\* is made on
delegate(s, op) ==
    /\ dev[s].st = "live"
    /\ dev[s].impl \in Hybrid
    /\ last' = Last(op, 0, s, NoOut, via(dev[s].impl, op), 0)
    /\ UNCHANGED <<st, dev, cfg, src, hnd, dbl, chan, rdy, waiter, fut, woken, sent, rcvd>>

\* hybrid streams being opened, used and dropped
NextHybrid ==
    \/ \E s \in Slots, fail \in OpenFails : open(s, "windows", fail)
    \/ \E s \in Slots, fail \in WinFails : WindowsSerialStream_open(s, fail)
    \/ \E s \in Slots, op \in StreamOps : delegate(s, op)
    \/ \E s \in Slots : drop_dev(s)

SpecHybrid == Init /\ [][NextHybrid]_vars

C2_ReleasedExactlyOnce ==
    \A s \in Slots :
        dev[s].impl \in Hybrid =>
            /\ dev[s].st = "live" =>
                   /\ Cardinality(Releasing(s)) = 1
                   /\ hnd[Hmain(s)] = "open"
            /\ dev[s].st = "dropped" =>
                   /\ hnd[Hmain(s)] = "free"
                   /\ Hmain(s) \notin dbl

\* The handles that a call of open into slot s, or of pair, acquires
Acquired(op, s) == IF op = "pair" THEN PairEps(s) ELSE {Hmain(s), Hprobe(s)}

\* C3: when open or pair has just returned an error, every handle the call
\* acquired is released, and none was released while it was not open.
C3_FailedConstructionReleasesOnce ==
    (last.op \in {"open", "pair"} /\ last.out.res = "Err") =>
        \A h \in Acquired(last.op, last.e) : hnd[h] = "free" /\ h \notin dbl

\* the asynchronous read and write operations
AsyncOps == {"poll_read", "poll_write", "TTYPort_read", "TTYPort_write"}

\* C4: no asynchronous read or write operation completes with a WouldBlock
\* error: a would-block of the raw operation makes it retry or suspend.
C4_AsyncNeverWouldBlock ==
    last.op \in AsyncOps => ~(last.out.res = "Err" /\ last.out.err = "WouldBlock")

PollOps == {"poll_read", "poll_write"}
WouldBlock == Out("Err", "WouldBlock", <<>>, 0)

\* C5: a poll_read or poll_write whose raw operation fails with an error
\* other than would-block returns Ready(Err(e)) with that error from the same
\* call: one raw operation, no byte moved, the task not left suspended.
C5_RawErrorPropagates ==
    [][(last'.op \in PollOps /\ last'.raw \notin {"", "Ok", "WouldBlock", "Interrupted"}) =>
          /\ last'.out = Out("Err", last'.raw, <<>>, 0)
          /\ last'.nraw = 1
          /\ rcvd' = rcvd /\ chan' = chan /\ sent' = sent
          /\ fut'[last'.t] = NoFut]_vars

C5_Witness ==
    /\ last.op = "poll_read"
    /\ last.raw = "EIO"
    /\ last.out.err = "EIO"
    /\ PeerOpen(last.e)
    /\ chan[last.e] # <<>>

\* C6: try_read on a stream with nothing to read, and try_write on a stream
\* whose queue is full, return would-block from the call itself: one raw
\* operation, no future left suspended, no waiter registered, no readiness
\* touched, no byte moved.
C6_TryReturnsWouldBlock ==
    [][/\ (/\ last'.op = "try_read"
           /\ chan[last'.e] = <<>> /\ PeerOpen(last'.e)
           /\ last'.raw = "WouldBlock") =>
              /\ last'.out = WouldBlock /\ last'.nraw = 1
              /\ waiter' = waiter /\ fut' = fut /\ woken' = woken /\ rdy' = rdy
              /\ rcvd' = rcvd /\ chan' = chan
       /\ (/\ last'.op = "try_write"
           /\ Len(chan[peer(last'.e)]) >= Cap /\ PeerOpen(last'.e)
           /\ last'.raw = "WouldBlock") =>
              /\ last'.out = WouldBlock /\ last'.nraw = 1
              /\ waiter' = waiter /\ fut' = fut /\ woken' = woken /\ rdy' = rdy
              /\ sent' = sent /\ chan' = chan]_vars

C6_Witness ==
    /\ last.op = "try_read"
    /\ last.out = WouldBlock
    /\ chan[last.e] = <<>>
    /\ PeerOpen(last.e)
    /\ \E t \in Tasks : fut[t] # NoFut

C8_PendingReplacesWaiter ==
    /\ \A e \in Eps : waiter[e].r \in 0..NTasks /\ waiter[e].w \in 0..NTasks
    /\ (last.op = "poll_read" /\ last.out.res = "Pending") => waiter[last.e].r = last.t
    /\ (last.op = "poll_write" /\ last.out.res = "Pending") => waiter[last.e].w = last.t

C8_Witness ==
    /\ last.op = "poll_read"
    /\ last.out.res = "Pending"
    /\ last.t = 2
    /\ fut[1] = ReadFut(last.e)
    /\ waiter[last.e].r = 2

\* the directions in which task t is the registered waiter and a readiness
\* event is being delivered by the step
Signalled(t) ==
    {x \in Eps \X {"r", "w"} : waiter[x[1]][x[2]] = t /\ ~rdy[x[1]][x[2]] /\ rdy'[x[1]][x[2]]}

\* C9: a readiness event wakes one task at most, the one registered in the
\* slot of the direction, that is the latest that polled it; a task that
\* is suspended on the direction but is no longer in the slot is not woken.
C9_WakesLatestOnly ==
    [][/\ \A t \in Tasks : (t \in woken' /\ t \notin woken) => Signalled(t) # {}
       /\ Cardinality(woken' \ woken) <= 1]_vars

C9_Witness ==
    /\ fut[1] = ReadFut(1)
    /\ fut[2] = ReadFut(1)
    /\ woken = {2}
    /\ rdy[1].r
    /\ chan[1] # <<>>

\* the next read on endpoint e, once the readiness is recorded, returns the
\* bytes at the head of the queue
Usable(e) ==
    \A n \in 1..MaxBuf :
        poll_read_loop(TRUE, waiter[e].r, chan[e], PeerOpen(e), 1, n, NoEnv).out
            = Out("Ok", "", SubSeq(chan[e], 1, Min(n, Len(chan[e]))), Min(n, Len(chan[e])))

\* C10: dropping a suspended read future moves no byte and touches neither
\* the readiness nor the stream; in every state the bytes written to the peer
\* and not yet returned by a read are the queue, in order, and while bytes
\* are queued the readiness is recorded or due and the next read returns them.
C10_CancelConsumesNothing ==
    /\ [][(last'.op = "cancel" /\ fut[last'.t].kind = "read") =>
             /\ chan' = chan /\ rcvd' = rcvd /\ sent' = sent
             /\ rdy' = rdy /\ st' = st /\ hnd' = hnd]_vars
    /\ [](\A e \in Eps : (st[e] = "live" /\ PeerOpen(e) /\ chan[e] # <<>>) =>
             /\ sent[peer(e)] = rcvd[e] \o chan[e]
             /\ rdy[e].r \/ KernelReady(e, "r")
             /\ Usable(e))

C10_Witness ==
    /\ last.op = "cancel"
    /\ st[last.e] = "live"
    /\ PeerOpen(last.e)
    /\ chan[last.e] # <<>>
    /\ rcvd[last.e] # <<>>
    /\ \A t \in Tasks : fut[t] = NoFut

\* ---------------------------------------------------------------------------
\* C11: the only operations of the stream that return Pending are read,
\* write, readable() and writable(); a device-control call, try_read,
\* try_write, flush or shutdown never suspends.
\* ---------------------------------------------------------------------------
SuspendingOps == {"poll_read", "poll_write", "readable", "writable"}

C11_OnlyReadWriteSuspend ==
    last.op \notin SuspendingOps => last.out.res # "Pending"

\* ---------------------------------------------------------------------------
\* C12: try_clone always fails with the error kind for an unsupported
\* operation, and leaves the stream, its handle and its registration as
\* they were.
\* ---------------------------------------------------------------------------
C12_TryCloneUnsupported ==
    last.op = "try_clone" => last.out = Out("Err", "Unsupported", <<>>, 0)

\* ---------------------------------------------------------------------------
\* C13: set_baud_rate(v) with a baud rate the device supports succeeds and
\* baud_rate() then returns v, until the next successful set; with a baud
\* rate the device rejects it fails with a Configuration error and
\* baud_rate() keeps returning the previous value.
\* ---------------------------------------------------------------------------
Live == {e \in Eps : st[e] = "live"}
Ok(n) == Out("Ok", "", <<>>, n)
baud_rate(c, ch) == SerialPort_call(c, ch, "baud_rate", 0, "none").out

C13_BaudRoundTrip ==
    [][/\ last'.op = "set_baud_rate"
              => /\ \A v \in Args("set_baud_rate") :
                        \E r \in {SerialPort_call(cfg[last'.e], chan[last'.e],
                                                  "set_baud_rate", v, "none")} :
                            IF v \in Supported("baud_rate")
                            THEN r.out = Ok(0) /\ baud_rate(r.cfg, r.chan) = Ok(v)
                            ELSE /\ r.out = Out("Err", "Configuration", <<>>, 0)
                                 /\ baud_rate(r.cfg, r.chan)
                                        = baud_rate(cfg[last'.e], chan[last'.e])
                 /\ \E v \in Args("set_baud_rate"), fault \in {"none", "EIO"} :
                        \E r \in {SerialPort_call(cfg[last'.e], chan[last'.e],
                                                  "set_baud_rate", v, fault)} :
                            /\ last'.out = r.out
                            /\ cfg' = [cfg EXCEPT ![last'.e] = r.cfg]
                            /\ fault = "none" => (r.out = Ok(0) <=> v \in Supported("baud_rate"))
                            /\ baud_rate(cfg'[last'.e], chan'[last'.e])
                                   = IF r.out = Ok(0) THEN Ok(v)
                                     ELSE baud_rate(cfg[last'.e], chan[last'.e])
       /\ \A e \in Live :
              baud_rate(cfg'[e], chan'[e]) # baud_rate(cfg[e], chan[e])
                  => last' = Last("set_baud_rate", 0, e, Ok(0), "", 0)
      ]_vars

\* a set_baud_rate that the device rejected, after one that changed the rate
C13_Witness ==
    /\ last.op = "set_baud_rate"
    /\ last.out = Out("Err", "Configuration", <<>>, 0)
    /\ st[last.e] = "live"
    /\ cfg[last.e]["baud_rate"] = 115200

\* ---------------------------------------------------------------------------
\* C14: every device-control operation of the stream returns exactly what
\* the same operation on the device returns, and leaves the readiness and
\* the waiters of both directions as they were.
\* ---------------------------------------------------------------------------
C14_ControlForwards ==
    [][last'.op \in DeviceOps
          => /\ \A arg \in Args(last'.op), fault \in {"none", "EIO"} :
                    SerialPort_call(cfg[last'.e], chan[last'.e], last'.op, arg, fault)
                        = device_call(cfg[last'.e], chan[last'.e], last'.op, arg, fault)
             /\ \E arg \in Args(last'.op), fault \in {"none", "EIO"} :
                    \E r \in {device_call(cfg[last'.e], chan[last'.e], last'.op, arg, fault)} :
                        /\ last'.out = r.out
                        /\ cfg' = [cfg EXCEPT ![last'.e] = r.cfg]
                        /\ chan' = [chan EXCEPT ![last'.e] = r.chan]
             /\ UNCHANGED <<rdy, waiter, fut, woken>>
      ]_vars

\* a device-control call that the device failed, made while a task waits
\* for the write readiness with a suspended flush
C14_Witness ==
    /\ last.op \in DeviceOps
    /\ last.out.res = "Err"
    /\ st[last.e] = "live"
    /\ waiter[last.e].w # 0
    /\ fut[waiter[last.e].w] = FlushFut(last.e)

\* ---------------------------------------------------------------------------
\* C15: set_timeout(d) succeeds for every d and changes nothing, timeout()
\* returns zero whatever was set, and no operation suspends differently for
\* it.
\* ---------------------------------------------------------------------------
C15_TimeoutIgnored ==
    [][last'.op \in {"set_timeout", "timeout"}
          => /\ \A d \in Args("set_timeout"), fault \in {"none", "EIO"} :
                    /\ SerialPort_call(cfg[last'.e], chan[last'.e], "set_timeout", d, fault)
                           = Called(Ok(0), cfg[last'.e], chan[last'.e])
                    /\ SerialPort_call(cfg[last'.e], chan[last'.e], "timeout", 0, fault).out
                           = Ok(0)
             /\ last'.out = Ok(0)
             /\ UNCHANGED <<st, dev, cfg, src, hnd, dbl, chan, rdy, waiter, fut, woken, sent, rcvd>>
      ]_vars

\* a set_timeout made while a flush is suspended
C15_Witness ==
    /\ last.op = "set_timeout"
    /\ st[last.e] = "live"
    /\ fut[1] = FlushFut(last.e)

\* ---------------------------------------------------------------------------
\* C16: in the open of a hybrid stream, every device-configuration step
\* (baud rate, parity, data bits, stop bits, flow control, comm timeouts)
\* completes before the asynchronous primitive is constructed from the
\* handle; when a configuration step fails the primitive is never
\* constructed and open returns the error.
\* ---------------------------------------------------------------------------
C16_ConfiguredBeforeConstructed ==
    last.op = "open" /\ last.raw \in Hybrid
        => \E tr \in {executed(StepsOf(last.raw),
                               IF last.out.res = "Ok" THEN "none" ELSE last.out.err)} :
               /\ \A i \in 1..Len(tr) :
                      tr[i] = Construct(last.raw)
                          => Configure(last.raw) \subseteq {tr[j] : j \in 1..(i - 1)}
               /\ last.out.err \in Configure(last.raw)
                      => /\ Construct(last.raw) \notin {tr[j] : j \in 1..Len(tr)}
                         /\ last.out.res = "Err"
                         /\ dev[last.e] = NoDev
                         /\ \A h \in {Hmain(last.e), Hprobe(last.e)} : hnd[h] = "free"

\* an open of WindowsSerialStream that fails at the comm timeouts
C16_Witness ==
    /\ last.op = "open"
    /\ last.raw = "WindowsSerialStream"
    /\ last.out = Out("Err", "override_comm_timeouts", <<>>, 0)

\* ---------------------------------------------------------------------------
\* C17: on a hybrid stream every byte-transfer or readiness operation
\* (try_read, try_write, poll_read, poll_write, readable, writable) is made
\* through the owner that does the asynchronous I/O, and every
\* device-control operation through the configuration owner; none uses the
\* other owner.
\* ---------------------------------------------------------------------------
OwnerObjs(s) == {dev[s].owners[i].obj : i \in 1..Len(dev[s].owners)}

C17_OwnersKeepTheirRoles ==
    /\ last.op \in IoOps
           => /\ last.raw \in OwnerObjs(last.e)
              /\ role(dev[last.e].impl, last.raw) = "io"
    /\ last.op \in DeviceOps
           => /\ last.raw \in OwnerObjs(last.e)
              /\ role(dev[last.e].impl, last.raw) = "config"

\* a device-control call on a WindowsSerialStream and, on the other slot, a
\* live SerialStream
C17_Witness ==
    /\ last.op = "set_baud_rate"
    /\ dev[last.e].impl = "WindowsSerialStream"
    /\ \E s \in Slots : dev[s].st = "live" /\ dev[s].impl = "windows"

\* ---------------------------------------------------------------------------
\* C18: two calls of pair yield four endpoints with four distinct handles;
\* nothing done on one pair is seen on the other (no byte crosses, no state
\* changes); dropping an endpoint releases the handle of that endpoint and
\* no other.
\* ---------------------------------------------------------------------------
\* the pair a step was made on
StepPair == IF last'.op = "pair" THEN last'.e ELSE PairOf(last'.e)

C18_PairsAreIndependent ==
    [][/\ \A x \in Eps \ PairEps(StepPair) :
              /\ st'[x] = st[x] /\ hnd'[x] = hnd[x]
              /\ chan'[x] = chan[x] /\ sent'[x] = sent[x] /\ rcvd'[x] = rcvd[x]
              /\ rdy'[x] = rdy[x] /\ waiter'[x] = waiter[x]
       /\ last'.op = "pair" /\ last'.out.res = "Ok"
              => \A e \in PairEps(last'.e) : hnd[e] = "free" /\ hnd'[e] = "open"
       /\ Cardinality({h \in Eps : hnd'[h] = "open"}) = Cardinality({e \in Eps : st'[e] = "live"})
       /\ last'.op = "drop"
              => /\ hnd[last'.e] = "open" /\ hnd'[last'.e] = "free"
                 /\ \A h \in Handles \ {last'.e} : hnd'[h] = hnd[h]
                 /\ dbl' = dbl
                 /\ \A x \in Eps \ {last'.e} : st'[x] = st[x]
       /\ \A p \in Pairs : \A m \in Masters \cap PairEps(p), e \in Slaves \cap PairEps(p) :
              st'[m] = "live" /\ st'[e] = "live" => sent'[m] = rcvd'[e] \o chan'[e]
      ]_vars

\* the master of the first pair is dropped while the second pair is live
\* with bytes in flight and bytes received
C18_Witness ==
    /\ last.op = "drop" /\ last.e = 1
    /\ \A e \in {2, 3, 4} : st[e] = "live"
    /\ chan[4] # <<>>
    /\ rcvd[4] # <<>>
    /\ rcvd[2] # <<>>

\* ---------------------------------------------------------------------------
\* C19: readable() and writable() transfer no bytes and resolve as a hint
\* only: readable() can resolve and the try_read that follows it at once
\* return the would-block error, which is a normal result.
\* ---------------------------------------------------------------------------
AwaitOps == {"readable", "writable"}

C19_ReadinessIsAHint ==
    [][/\ last'.op \in AwaitOps
              => /\ last'.out.res = IF rdy[last'.e][IF last'.op = "readable" THEN "r" ELSE "w"]
                                    THEN "Ok" ELSE "Pending"
                 /\ UNCHANGED <<st, dev, cfg, src, hnd, dbl, chan, rdy, waiter, sent, rcvd>>
       /\ last.op = "readable" /\ last.out.res = "Ok" /\ last'.op = "try_read"
              /\ last'.e = last.e /\ last'.raw \in {"Ok", "WouldBlock"}
              => /\ last'.out = WouldBlock <=> chan[last.e] = <<>> /\ PeerOpen(last.e)
                 /\ last'.out = WouldBlock
                        => UNCHANGED <<st, dev, cfg, src, hnd, dbl, chan, rdy, waiter, fut, woken,
                                       sent, rcvd>>
      ]_vars

\* readable() has resolved on the readiness recorded for bytes that an
\* earlier try_read took: nothing is queued, the peer is open
C19_Witness ==
    /\ last.op = "readable" /\ last.out.res = "Ok"
    /\ st[last.e] = "live" /\ PeerOpen(last.e)
    /\ chan[last.e] = <<>>
    /\ rcvd[last.e] # <<>>

\* ---------------------------------------------------------------------------
\* C20: converting a handle to its non-blocking form fails with a
\* Configuration error whenever the OS rejects the mode change (the terminal
\* attributes or the file-status flags), and then no stream is produced.
\* ---------------------------------------------------------------------------
ModeSteps == {"tcgetattr", "tcsetattr", "F_GETFL", "F_SETFL"}

C20_RejectedModeIsConfiguration ==
    last.op = "try_from" /\ last.raw \in ModeSteps
        => /\ last.out = Out("Err", "Configuration", <<>>, 0)
           /\ dev[last.e] = NoDev

\* ---------------------------------------------------------------------------
\* C21: the raw read, write and flush helpers never return an Interrupted
\* error: each repeats the system call while it reports interrupted and
\* returns the first other outcome (a byte count, would-block or another
\* error) unchanged.
\* ---------------------------------------------------------------------------
RawOps == {"UnixSerialStream_read", "UnixSerialStream_write", "UnixSerialStream_flush"}
Interrupted == Out("Err", "Interrupted", <<>>, 0)

C21_InterruptedNeverSurfaces ==
    [][last'.op \in RawOps
          => /\ last'.out # Interrupted
             /\ last'.raw = RawKind(last'.out)
             /\ \A env \in Envs :
                    /\ \A n \in 1..MaxBuf :
                           read_from_fd(chan[last'.e], PeerOpen(last'.e), n, env)
                               = sys_read(chan[last'.e], PeerOpen(last'.e), n, env.fault)
                    /\ \A k \in 1..MaxChunk :
                           write_to_fd(chan[peer(last'.e)], PeerOpen(last'.e),
                                       Stamp(Len(sent[last'.e]), k), env)
                               = sys_write(chan[peer(last'.e)], PeerOpen(last'.e),
                                           Stamp(Len(sent[last'.e]), k), env.fault)
                    /\ flush_fd(PeerOpen(last'.e), env) = sys_flush(PeerOpen(last'.e), env.fault)
      ]_vars

\* a read that was interrupted MaxIntr times and then returned bytes
C21_Witness ==
    /\ last.op = "UnixSerialStream_read"
    /\ last.nraw = MaxIntr + 1
    /\ last.out.res = "Ok" /\ last.out.n > 0

Newlines(buf) == {i \in 1..Len(buf) : buf[i] \in Newline}

C23_DecodeSplitsAtFirstNewline ==
    [][last'.op = "decode"
          => IF Newlines(src) = {}
             THEN last'.out = Ok(0) /\ last'.out.bytes = <<>> /\ src' = src
             ELSE \E n \in Newlines(src) :
                      /\ \A i \in Newlines(src) : n <= i
                      /\ src = SubSeq(src, 1, n) \o src'
                      /\ IF from_utf8(SubSeq(src, 1, n))
                         THEN last'.out = Out("Ok", "", SubSeq(src, 1, n), n)
                         ELSE last'.out.res = "Err"
      ]_vars

\* a record with invalid text was removed and an error returned, while a
\* second, complete record stays buffered
C23_Witness ==
    /\ last.op = "decode" /\ last.out.res = "Err"
    /\ Newlines(src) # {}

\* ---------------------------------------------------------------------------
\* C24: the open of a hybrid stream is atomic: it returns an error and
\* builds no stream, or it returns a stream whose two owners both exist and
\* hold the same, single, open OS handle; and in every state in which a hybrid
\* stream is live its two owners hold the same handle value.
\* ---------------------------------------------------------------------------
HandlesOf(s) == {dev[s].owners[i].h : i \in 1..Len(dev[s].owners)}

C24_HybridOpenIsAtomic ==
    /\ \A s \in Slots :
           dev[s].st = "live" /\ dev[s].impl \in Hybrid
               => /\ Len(dev[s].owners) = 2
                  /\ Cardinality(OwnerObjs(s)) = 2
                  /\ HandlesOf(s) = {Hmain(s)}
                  /\ hnd[Hmain(s)] = "open"
    /\ last.op = "open" /\ last.raw \in Hybrid
           => \/ last.out.res = "Err" /\ dev[last.e] = NoDev
              \/ last.out.res = "Ok" /\ dev[last.e].st = "live"
                    /\ dev[last.e].impl = last.raw

\* a WindowsSerialStream was just opened while a windows SerialStream is live
\* in the other slot
C24_Witness ==
    /\ last.op = "open" /\ last.raw = "WindowsSerialStream" /\ last.out.res = "Ok"
    /\ \E s \in Slots \ {last.e} : dev[s].st = "live" /\ dev[s].impl = "windows"

\* ---------------------------------------------------------------------------
\* C25: in poll_read and poll_write, when the raw operation attempted under
\* the guard reports would-block, try_io clears the readiness recorded for
\* the direction, and the call goes back to the readiness poll, which
\* registers the caller as the waiter and returns Pending, before any
\* further raw attempt.
\* ---------------------------------------------------------------------------
Direction(op) == IF op = "poll_read" THEN "r" ELSE "w"

C25_WouldBlockClearsReadiness ==
    [][last'.op \in PollOps /\ last'.raw = "WouldBlock"
          => /\ rdy[last'.e][Direction(last'.op)]
             /\ ~rdy'[last'.e][Direction(last'.op)]
             /\ last'.nraw = 1
             /\ last'.out.res = "Pending"
             /\ waiter'[last'.e][Direction(last'.op)] = last'.t
      ]_vars

\* a poll_write whose raw write reported would-block: the readiness is
\* cleared and the caller is the registered waiter
C25_Witness ==
    /\ last.op = "poll_write" /\ last.raw = "WouldBlock"
    /\ ~rdy[last.e].w
    /\ waiter[last.e].w = last.t

\* C25 as it was stated: the would-block outcome leaves the readiness
\* recorded for the direction as it was, and the call goes back to the
\* readiness poll before any further raw attempt.
C25_WouldBlockKeepsReadiness ==
    [][last'.op \in PollOps /\ last'.raw = "WouldBlock"
          => /\ rdy'[last'.e][Direction(last'.op)] = rdy[last'.e][Direction(last'.op)]
             /\ last'.out.res = "Pending"
                    => waiter'[last'.e][Direction(last'.op)] = last'.t
      ]_vars

\* ---------------------------------------------------------------------------
\* C26: every call of poll_read, poll_write or poll_flush terminates: its
\* loop repeats only after a would-block outcome and ends with Pending or
\* with an outcome that is not a would-block; it never keeps spinning while
\* the raw operation reports would-block.
\* ---------------------------------------------------------------------------
LoopOps == PollOps \cup {"poll_flush"}

C26_PollTerminates ==
    last.op \in LoopOps
        => /\ last.out.res \in {"Ok", "Err", "Pending"}
           /\ last.nraw < Fuel
           /\ last.nraw > 1 => last.raw = "WouldBlock"
           /\ last.out.res = "Err" => last.out.err # "WouldBlock"
           /\ last.raw = "WouldBlock" => last.out.res = "Pending"

\* a poll_read whose raw read reported would-block on a stale readiness: the
\* loop went round once and the call ended with Pending
C26_Witness ==
    /\ last.op = "poll_read" /\ last.raw = "WouldBlock"
    /\ last.out.res = "Pending" /\ last.nraw = 1

\* ---------------------------------------------------------------------------
\* C27: in poll_read and poll_write the raw operation is attempted only
\* after the readiness poll of the direction reported ready in the same call;
\* a call that returns Pending has transferred no bytes, and a raw operation
\* it made reported would-block.
\* ---------------------------------------------------------------------------
C27_RawOnlyAfterReady ==
    [][last'.op \in PollOps
          => /\ last'.nraw > 0 => rdy[last'.e][Direction(last'.op)]
             /\ last'.out.res = "Pending"
                    => /\ chan' = chan /\ sent' = sent /\ rcvd' = rcvd
                       /\ last'.out.bytes = <<>>
                       /\ last'.nraw = 0 \/ last'.raw = "WouldBlock"
      ]_vars

\* a poll_read that found no readiness recorded while bytes were queued: it
\* returned Pending without a raw read, and the bytes are still queued
C27_Witness ==
    /\ last.op = "poll_read" /\ last.out.res = "Pending" /\ last.nraw = 0
    /\ chan[last.e] # <<>>

\* C27 as it was stated: a call that returns Pending has performed no raw
\* operation and transferred no bytes.
C27_PendingMadeNoRawOperation ==
    [][last'.op \in PollOps
          => /\ last'.nraw > 0 => rdy[last'.e][Direction(last'.op)]
             /\ last'.out.res = "Pending"
                    => /\ chan' = chan /\ sent' = sent /\ rcvd' = rcvd
                       /\ last'.nraw = 0
      ]_vars

\* ---------------------------------------------------------------------------
\* C28: an asynchronous read or write polls the readiness of its direction
\* first; when the readiness is recorded and the raw attempt succeeds it
\* returns the result at once, without suspending: a read started while the
\* read readiness is recorded and data is available on the handle never
\* returns Pending, and neither does such a write while the peer has room.
\* ---------------------------------------------------------------------------
\* the raw operation of direction d on endpoint e would transfer bytes
Available(e, d) ==
    IF d = "r" THEN chan[e] # <<>> ELSE PeerOpen(e) /\ Len(chan[peer(e)]) < Cap

AsyncDir(op) == IF op \in {"poll_read", "TTYPort_read"} THEN "r" ELSE "w"

C28_ReadyDataNeverPending ==
    [][last'.op \in AsyncOps /\ rdy[last'.e][AsyncDir(last'.op)]
                             /\ Available(last'.e, AsyncDir(last'.op))
          => /\ last'.out.res # "Pending"
             /\ fut'[last'.t] = NoFut
             /\ last'.nraw = 1
             /\ last'.raw = "Ok" => last'.out.res = "Ok" /\ last'.out.n > 0
      ]_vars

\* a poll_read that found the readiness recorded and bytes queued, and
\* returned them
C28_Witness ==
    /\ last.op = "poll_read" /\ last.raw = "Ok" /\ last.out.n > 0
    /\ fut[last.t] = NoFut

\* C28 as it was stated: a read started while data is available on the
\* handle never returns Pending.
C28_DataNeverPending ==
    [][last'.op \in AsyncOps /\ AsyncDir(last'.op) = "r" /\ Available(last'.e, "r")
          => last'.out.res # "Pending"
      ]_vars

\* ---------------------------------------------------------------------------
\* C29: poll_flush returns every error of the underlying flush other than a
\* would-block to the caller unchanged, as Ready(Err(e)); it returns
\* Ready(Ok(())) only when the underlying flush succeeded.
\* ---------------------------------------------------------------------------
C29_FlushErrorPropagates ==
    last.op = "poll_flush"
        => /\ last.raw \notin {"", "Ok", "WouldBlock"}
                  => last.out = Out("Err", last.raw, <<>>, 0)
           /\ last.out.res = "Ok" => last.raw = "Ok"

\* ---------------------------------------------------------------------------
\* C30: the read and the write direction of a stream are independent:
\* registering, replacing or waking a waiter, or setting or clearing the
\* readiness, in one direction leaves the waiter and the readiness of the
\* other direction as they were, so a reader task and a writer task on the
\* same stream never replace each other's waiter.
\* ---------------------------------------------------------------------------
Other(d) == IF d = "r" THEN "w" ELSE "r"

\* the step changes the waiter or the readiness of direction d of endpoint e
Touched(e, d) == rdy'[e][d] # rdy[e][d] \/ waiter'[e][d] # waiter[e][d]

C30_DirectionsAreIndependent ==
    [][/\ \A e \in Eps, d \in {"r", "w"} :
              st[e] = "live" /\ st'[e] = "live" /\ Touched(e, d)
                  => /\ ~Touched(e, Other(d))
                     /\ \A t \in woken' \ woken : t = waiter[e][d]
       /\ last'.op \in PollOps /\ st[last'.e] = "live"
              => /\ ~Touched(last'.e, Other(Direction(last'.op)))
                 /\ \A t \in Tasks \ {last'.t} : fut'[t] = fut[t]
      ]_vars

\* task 2 has just registered as the reader of the stream of endpoint 1
\* while task 1 is suspended as its writer: each is in its own slot
C30_Witness ==
    /\ last.op = "poll_read" /\ last.out.res = "Pending" /\ last.t = 2
    /\ waiter[last.e].r = 2
    /\ waiter[last.e].w = 1 /\ fut[1] = WriteFut(last.e)

\* ---------------------------------------------------------------------------
\* C31: no handle is registered with the reactor unless it was put into
\* non-blocking mode before: in try_from the change of the terminal
\* attributes and the setting of O_NONBLOCK both complete before the
\* registration, and a failure of any of these steps returns an error
\* without registering the handle and without building a stream.
\* ---------------------------------------------------------------------------
Steps(tr) == {tr[i] : i \in 1..Len(tr)}

C31_NonBlockingBeforeRegistered ==
    last.op = "try_from"
        => \E tr \in {executed(TryFromOrder, last.raw)} :
               /\ \A i \in 1..Len(tr) :
                      tr[i] = "AsyncFd" => ModeSteps \subseteq Steps(SubSeq(tr, 1, i - 1))
               /\ last.raw \in ModeSteps
                      => /\ "AsyncFd" \notin Steps(tr)
                         /\ last.out.res = "Err"
                         /\ dev[last.e] = NoDev
                         /\ hnd[Hmain(last.e)] = "free"
               /\ dev[last.e].st = "live"
                      => last.out.res = "Ok" /\ Steps(tr) = Steps(TryFromOrder)
               /\ last.out.res = "Err" => dev[last.e] = NoDev

\* a conversion that failed at the setting of O_NONBLOCK, after the terminal
\* attributes were changed
C31_Witness ==
    /\ last.op = "try_from" /\ last.raw = "F_SETFL"
    /\ last.out.res = "Err"

\* ---------------------------------------------------------------------------
\* C32: with one reader task per stream no wakeup is lost: whenever
\* poll_read returns Pending the caller is the registered waiter of the read
\* direction; when the reactor delivers the read readiness it wakes that
\* task; and a read suspended while data is available does not stay
\* suspended: it completes. The same for a single writer and the room in the
\* peer's queue, as long as the model has bytes left to write (InBudget).
\* ---------------------------------------------------------------------------
Suspended(t, e, d) == fut[t] = (IF d = "r" THEN ReadFut(e) ELSE WriteFut(e))

C32_NoLostWakeup ==
    /\ [](last.op \in PollOps /\ last.out.res = "Pending"
             => /\ waiter[last.e][Direction(last.op)] = last.t
                /\ Suspended(last.t, last.e, Direction(last.op)))
    /\ [][\A e \in Eps, d \in {"r", "w"} :
              st[e] = "live" /\ ~rdy[e][d] /\ rdy'[e][d]
                  => \A t \in Tasks : Suspended(t, e, d) => t \in woken']_vars
    /\ \A t \in Tasks : \A e \in Own(t) :
          (Suspended(t, e, "r") /\ Available(e, "r")) ~> (fut[t] = NoFut)
    /\ \A t \in Tasks : \A e \in Own(t) :
          (Suspended(t, e, "w") /\ Available(e, "w"))
              ~> (fut[t] = NoFut \/ ~InBudget(e, 1))

\* the reader of the stream was woken by the reactor with bytes queued and
\* the readiness recorded, and has not polled yet
C32_Witness ==
    \E t \in Tasks : \E e \in Own(t) :
        /\ t \in woken /\ fut[t] = ReadFut(e)
        /\ chan[e] # <<>> /\ rdy[e].r

\* ---------------------------------------------------------------------------
\* C33: poll_shutdown never returns Pending: it polls the flush once and
\* returns Ready(Err(e)) when that poll produced an error and Ready(Ok(()))
\* otherwise, also when the flush poll returned Pending; it neither closes
\* nor releases the handle.
\* ---------------------------------------------------------------------------
C33_ShutdownNeverPending ==
    [][last'.op = "poll_shutdown"
          => /\ last'.out.res \in {"Ok", "Err"}
             /\ \E env \in Envs :
                    \E p \in {poll_flush_loop(rdy[last'.e].w, waiter[last'.e].w,
                                              PeerOpen(last'.e), last'.t, env)} :
                        /\ p.nraw = last'.nraw /\ RawKind(p.raw) = last'.raw
                        /\ rdy'[last'.e].w = p.ready
                        /\ last'.out = IF p.out.res = "Err" THEN p.out
                                       ELSE Out("Ok", "", <<>>, 0)
             /\ last'.nraw <= 1
             /\ fut' = fut
             /\ st' = st /\ hnd' = hnd /\ dbl' = dbl /\ chan' = chan
      ]_vars

\* a shutdown reported as done while its flush poll found no write readiness
\* and registered the caller's waker
C33_Witness ==
    /\ last.op = "poll_shutdown" /\ last.out.res = "Ok" /\ last.nraw = 0
    /\ waiter[last.e].w = last.t
    /\ st[last.e] = "live" /\ hnd[last.e] = "open"

\* ---------------------------------------------------------------------------
\* C34: on unix try_read, try_write, readable() and writable() never clear
\* the readiness recorded for the stream: after a try_read that returned
\* would-block the read readiness is as it was, so a following readable()
\* resolves at once although no new data has arrived.
\* ---------------------------------------------------------------------------
HintOps == {"try_read", "try_write", "readable", "writable"}

C34_TryKeepsReadiness ==
    [][/\ last'.op \in HintOps => rdy' = rdy /\ waiter' = waiter
       /\ last.op = "try_read" /\ last.out = WouldBlock /\ rdy[last.e].r
              /\ last'.op = "readable" /\ last'.e = last.e
              => /\ last'.out.res = "Ok"
                 /\ fut'[last'.t] = NoFut
                 /\ chan'[last.e] = <<>>
      ]_vars

\* a try_read has returned would-block and the read readiness recorded
\* before it is still recorded
C34_Witness ==
    /\ last.op = "try_read" /\ last.out = WouldBlock
    /\ st[last.e] = "live" /\ rdy[last.e].r

\* ---------------------------------------------------------------------------
\* C35: poll_read advances the caller's buffer by exactly the number of
\* bytes the raw read returned when it completes with Ready(Ok(())), and
\* leaves the filled part as it was when it returns Pending or Ready(Err(e));
\* a raw read of zero bytes completes with Ready(Ok(())) and no advance.
\* ---------------------------------------------------------------------------
\* the bytes the step took from the queue of endpoint e
Taken(e) == SubSeq(chan[e], 1, Len(chan[e]) - Len(chan'[e]))

C35_AdvanceIsBytesRead ==
    [][last'.op = "poll_read" /\ st[last'.e] = "live"
          => /\ chan[last'.e] = Taken(last'.e) \o chan'[last'.e]
             /\ rcvd'[last'.e] = rcvd[last'.e] \o Taken(last'.e)
             /\ last'.out.res = "Ok"
                    => /\ Len(Taken(last'.e)) = last'.out.n
                       /\ last'.raw = "Ok"
             /\ last'.out.res \in {"Pending", "Err"} => rcvd' = rcvd /\ chan' = chan
             /\ last'.raw = "Ok" => last'.out.res = "Ok"
      ]_vars

\* a raw read of zero bytes, into a buffer with no room while bytes are
\* queued, completed with Ready(Ok(())) and nothing was advanced
C35_Witness ==
    /\ last.op = "poll_read" /\ last.out.res = "Ok" /\ last.out.n = 0
    /\ chan[last.e] # <<>>

\* ---------------------------------------------------------------------------
\* C36: in WindowsSerialStream::open the handle used to probe the settings
\* of the port is released before the overlapped handle is created, so the
\* constructor never holds two open handles to the device; when the probing
\* port reports no name, open fails with NoDevice before any overlapped
\* handle is created.
\* ---------------------------------------------------------------------------
\* the step at which the open that the step made failed, or "none"
FailedAt(l) == IF l.out.res = "Ok" THEN "none" ELSE l.out.err

C36_ProbeReleasedBeforeReopen ==
    [][last'.op = "open" /\ last'.raw = "WindowsSerialStream"
          => \E run \in {open_run([hnd |-> hnd, dbl |-> dbl], last'.e, WinOrder,
                                  FailedAt(last'))} :
                 /\ Len(run) = Len(executed(WinOrder, FailedAt(last')))
                 /\ run[Len(run)].hnd = hnd' /\ run[Len(run)].dbl = dbl'
                 /\ \A i \in 1..Len(run) :
                        ~(/\ run[i].hnd[Hprobe(last'.e)] = "open"
                          /\ run[i].hnd[Hmain(last'.e)] = "open")
                 /\ \A i \in 1..Len(run) :
                        run[i].hnd[Hmain(last'.e)] = "open"
                            => /\ i >= Pos(WinOrder, "create_file")
                               /\ \E j \in 1..(i - 1) :
                                      /\ run[j].hnd[Hprobe(last'.e)] = "free"
                                      /\ j > Pos(WinOrder, "probe")
                 /\ FailedAt(last') = "name"
                        => /\ WindowsSerialStream_error(FailedAt(last')) = "NoDevice"
                           /\ \A i \in 1..Len(run) : run[i].hnd[Hmain(last'.e)] = "free"
                           /\ dev'[last'.e] = NoDev
      ]_vars

\* an open that failed because the probing port had no name: nothing is open
C36_Witness ==
    /\ last.op = "open" /\ last.raw = "WindowsSerialStream"
    /\ last.out = Out("Err", "name", <<>>, 0)
    /\ hnd[Hprobe(last.e)] = "free" /\ hnd[Hmain(last.e)] = "free"

\* ---------------------------------------------------------------------------
\* C37: when decode returns an error for a record that is not valid text,
\* the bytes of that record, up to and including its newline, are already
\* removed from the buffer: the next decode continues with the bytes after
\* that newline, and the error is not returned again for the same bytes.
\* ---------------------------------------------------------------------------
\* the bytes of buf up to and including its first newline
Record(buf) == SubSeq(buf, 1, CHOOSE n \in Newlines(buf) : \A i \in Newlines(buf) : n <= i)

C37_ErrorConsumesRecord ==
    [][/\ last'.op = "decode" /\ last'.out.res = "Err"
              => /\ Newlines(src) # {}
                 /\ ~from_utf8(Record(src))
                 /\ src = Record(src) \o src'
                 /\ Len(src') < Len(src)
       /\ last.op = "decode" /\ last.out.res = "Err" /\ last'.op = "decode"
              => IF Newlines(src) = {}
                 THEN last'.out = Ok(0) /\ src' = src
                 ELSE /\ src = Record(src) \o src'
                      /\ last'.out.res = "Err" <=> ~from_utf8(Record(src))
                      /\ last'.out.res = "Ok" => last'.out.bytes = Record(src)
      ]_vars

\* decode has returned an error and removed the record; what follows the
\* record's newline is still buffered
C37_Witness ==
    /\ last.op = "decode" /\ last.out.res = "Err"
    /\ src # <<>> /\ Newlines(src) = {}

====
